---- MODULE Spec2Model ----
(***************************************************************************)
(* Model of dateutil's date/time string parser                             *)
(* (src/src/dateutil/parser/_parser.py).                                   *)
(*                                                                         *)
(* Each public or directly callable operation is one action: it draws its  *)
(* arguments from bounded sets, records them in `call` and records what    *)
(* the Python code does with them (a returned value or a raised exception) *)
(* in `outcome`.  `info` is the parserinfo instance built at construction; *)
(* `ymd` is a year/month/day accumulator (class _ymd), which keeps what    *)
(* was appended to it from one call to the next; `lex` is a tokenizer      *)
(* (class _timelex), which keeps its place in the text it reads; `run` is   *)
(* one run of the dispatch loop of parser._parse over a token list: the    *)
(* list, the position in it, the result object being filled and the        *)
(* skipped positions.                                                      *)
(*                                                                         *)
(* Python's None is the empty tuple and a present value v is <<v>>, so an  *)
(* optional field never mixes types.  Text is a tuple of one-character     *)
(* strings.                                                                *)
(***************************************************************************)
EXTENDS Integers, Sequences, FiniteSets, TLC

VARIABLES call, outcome, info, ymd, lex, run

vars == <<call, outcome, info, ymd, lex, run>>

-----------------------------------------------------------------------------
(* Bounds of the model *)

\* reference years a parserinfo is built in: 1970 .. 1970 + RefYearSpan
RefYearSpan == 100

\* year values handed to convertyear: 0 .. MaxYearArg
MaxYearArg == 120

\* hours handed to _ampm_valid: 0 .. MaxAmpmHour
MaxAmpmHour == 14

\* values appended to one accumulator before it is resolved
MaxYmdLen == 4

-----------------------------------------------------------------------------
(* Python values *)

None == <<>>

Some(v) == <<v>>

Val(o) == o[1]

Return(v) == [kind |-> "return", value |-> v, exc |-> "-"]

Raise(e) == [kind |-> "raise", value |-> None, exc |-> e]

returned(o) == o.kind = "return"

raised(o, e) == o.kind = "raise" /\ o.exc = e

Min(a, b) == IF a <= b THEN a ELSE b

Abs(a) == IF a < 0 THEN -a ELSE a

-----------------------------------------------------------------------------
(* class parserinfo *)

\* parserinfo.__init__: the reference year is read from the clock once
parserinfo(year_now, dayfirst, yearfirst) ==
    [dayfirst |-> dayfirst,
     yearfirst |-> yearfirst,
     _year |-> year_now,
     _century |-> (year_now \div 100) * 100,
     TZOFFSET |-> {}]

\* convertyear with the +-100 shift left out
convertyear_noshift(self, year, century_specified) ==
    IF year < 100 /\ ~century_specified
    THEN Return(year + self._century)
    ELSE Return(year)

\* parserinfo.convertyear
convertyear(self, year, century_specified) ==
    IF year < 0 THEN Raise("AssertionError")
    ELSE IF year < 100 /\ ~century_specified
    THEN LET y1 == year + self._century
         IN  IF Abs(y1 - self._year) >= 50
             THEN IF y1 < self._year
                  THEN Return(y1 + 100)
                  ELSE Return(y1 - 100)
             ELSE Return(y1)
    ELSE Return(year)

-----------------------------------------------------------------------------
(* Library dates: calendar.monthrange, datetime.replace, datetime.weekday,  *)
(* datetime + timedelta(days), as the parser uses them                      *)

DtAttrs == {"year", "month", "day", "hour", "minute", "second", "microsecond"}

datetime(y, mo, d, h, mi, s, us) ==
    [year |-> y, month |-> mo, day |-> d,
     hour |-> h, minute |-> mi, second |-> s, microsecond |-> us]

isleap(year) == year % 4 = 0 /\ (year % 100 # 0 \/ year % 400 = 0)

mdays == <<31, 28, 31, 30, 31, 30, 31, 31, 30, 31, 30, 31>>

days_in_month(year, month) ==
    mdays[month] + (IF month = 2 /\ isleap(year) THEN 1 ELSE 0)

RECURSIVE days_before_month(_, _)
days_before_month(year, month) ==
    IF month = 1 THEN 0
    ELSE days_before_month(year, month - 1) + days_in_month(year, month - 1)

days_before_year(year) ==
    LET y == year - 1
    IN  y * 365 + (y \div 4) - (y \div 100) + (y \div 400)

toordinal(year, month, day) ==
    days_before_year(year) + days_before_month(year, month) + day

\* date.weekday(): Monday is 0
weekday_of(year, month, day) == (toordinal(year, month, day) + 6) % 7

\* calendar.monthrange(year, month): (weekday of the 1st, number of days)
monthrange(year, month) ==
    IF month \notin 1..12 \/ year \notin 1..9999
    THEN Raise("ValueError")
    ELSE Return(<<weekday_of(year, month, 1), days_in_month(year, month)>>)

datetime_valid(dt) ==
    /\ dt.year \in 1..9999
    /\ dt.month \in 1..12
    /\ dt.day \in 1..days_in_month(dt.year, dt.month)
    /\ dt.hour \in 0..23
    /\ dt.minute \in 0..59
    /\ dt.second \in 0..59
    /\ dt.microsecond \in 0..999999

\* datetime.replace(**repl): repl holds None for a keyword that is not passed
datetime_replace(dt, repl) ==
    LET new == [a \in DtAttrs |-> IF repl[a] # None THEN Val(repl[a]) ELSE dt[a]]
    IN  IF datetime_valid(new) THEN Return(new) ELSE Raise("ValueError")

next_day(dt) ==
    IF dt.day < days_in_month(dt.year, dt.month)
    THEN [dt EXCEPT !.day = dt.day + 1]
    ELSE IF dt.month < 12
    THEN [dt EXCEPT !.month = dt.month + 1, !.day = 1]
    ELSE [dt EXCEPT !.year = dt.year + 1, !.month = 1, !.day = 1]

\* datetime + timedelta(days=days), days >= 0
RECURSIVE datetime_add_days(_, _)
datetime_add_days(dt, days) ==
    IF days = 0 THEN dt ELSE datetime_add_days(next_day(dt), days - 1)

\* relativedelta(days=days).__radd__(other): every other field of the delta is
\* at its default, so year, month and day are replaced by themselves and the
\* days are added as a timedelta
relativedelta_radd(days, other) ==
    LET year == other.year
        month == other.month
        day == Min(monthrange(year, month).value[2], other.day)
        repl == [a \in DtAttrs |->
                    CASE a = "year" -> Some(year)
                      [] a = "month" -> Some(month)
                      [] a = "day" -> Some(day)
                      [] OTHER -> None]
        ret == datetime_replace(other, repl)
    IN  IF returned(ret) THEN Return(datetime_add_days(ret.value, days)) ELSE ret

-----------------------------------------------------------------------------
(* class parser *)

ResultSlots ==
    {"year", "month", "day", "weekday", "hour", "minute", "second",
     "microsecond", "tzname", "tzoffset", "ampm", "any_unused_tokens"}

\* parser._result(): every slot is None
_result == [a \in ResultSlots |-> None]

\* _resultbase.__len__: the number of slots that are not None
result_len(res) == Cardinality({a \in ResultSlots : res[a] # None})

\* parser._ampm_valid
_ampm_valid(hour, ampm, fuzzy) ==
    IF hour = None
    THEN IF fuzzy THEN Return(FALSE) ELSE Return(TRUE)
    ELSE IF ~(0 <= Val(hour) /\ Val(hour) <= 12)
    THEN IF fuzzy THEN Return(FALSE) ELSE Raise("ValueError")
    ELSE Return(TRUE)

\* the weekday roll with the difference taken the other way round
roll_to_weekday_reversed(res, naive) ==
    IF res.weekday # None /\ (res.day = None \/ Val(res.day) = 0)
    THEN LET days == (weekday_of(naive.year, naive.month, naive.day)
                      - Val(res.weekday)) % 7
         IN  relativedelta_radd(days, naive)
    ELSE Return(naive)

\* the weekday roll-forward of _build_naive_datetime (lines 1418-1421)
roll_to_weekday(res, naive) ==
    IF res.weekday # None /\ (res.day = None \/ Val(res.day) = 0)
    THEN LET days == (Val(res.weekday)
                      - weekday_of(naive.year, naive.month, naive.day)) % 7
         IN  relativedelta_radd(days, naive)
    ELSE Return(naive)

\* _build_naive_datetime without the month-end fallback of the default day
_build_naive_datetime_noclamp(res, default) ==
    LET naive == datetime_replace(default, [a \in DtAttrs |-> res[a]])
    IN  IF returned(naive) THEN roll_to_weekday(res, naive.value) ELSE naive

\* parser._build_naive_datetime
_build_naive_datetime(res, default) ==
    LET repl0 == [a \in DtAttrs |-> res[a]]
        cyear == IF repl0.year = None THEN default.year ELSE Val(repl0.year)
        cmonth == IF repl0.month = None THEN default.month ELSE Val(repl0.month)
        cday == default.day
        mr == monthrange(cyear, cmonth)
    IN  IF repl0.day = None /\ ~returned(mr)
        THEN mr
        ELSE LET repl == IF repl0.day = None /\ cday > mr.value[2]
                         THEN [repl0 EXCEPT !.day = Some(mr.value[2])]
                         ELSE repl0
                 naive == datetime_replace(default, repl)
             IN  IF returned(naive)
                 THEN roll_to_weekday(res, naive.value)
                 ELSE naive

\* parserinfo.UTCZONE
UTCZONE == {"UTC", "GMT", "Z", "z"}

\* What the zone rules work with.  A zone object (a tzinfo) comes from the
\* tz module or from the caller's resolver; `localize` says whether it has a
\* method of that name and what the method does when called: "absent",
\* "returns" (a timestamp with the same fields) or "TypeError".  A resolver
\* can also hand out a value that is no tzinfo (kind "int").
Zone(kind, name, offset, localize) ==
    [kind |-> kind, name |-> name, offset |-> offset, localize |-> localize]

LocalizeKinds == {"absent", "returns", "TypeError"}

\* tz.UTC, tz.tzlocal(), tz.tzoffset(name, offset), tz.tzstr(name)
tz_UTC == Zone("UTC", None, None, "absent")

tz_tzlocal(env) == Zone("tzlocal", None, None, env.localize)

tz_tzoffset(name, offset) == Zone("tzoffset", name, Some(offset), "absent")

tz_tzstr(name) == Zone("tzstr", Some(name), None, "absent")

\* tzinfos=None, a dict from names to one value, a callable giving one value
NoTzinfos == [kind |-> "None", names |-> {}, value |-> None]

DictTzinfos(names, value) == [kind |-> "dict", names |-> names, value |-> value]

CallableTzinfos(value) == [kind |-> "callable", names |-> {}, value |-> value]

\* dt.tzinfo: a timestamp is naive when it has no tzinfo
tzinfo_of(dt) == IF "tzinfo" \in DOMAIN dt THEN dt.tzinfo ELSE None

\* naive.replace(tzinfo=tzinfo): a value that is no tzinfo raises TypeError
replace_tzinfo(naive, tzinfo) ==
    IF tzinfo = None THEN Return(naive)
    ELSE IF Val(tzinfo).kind = "int" THEN Raise("TypeError")
    ELSE Return([year |-> naive.year, month |-> naive.month, day |-> naive.day,
                 hour |-> naive.hour, minute |-> naive.minute,
                 second |-> naive.second, microsecond |-> naive.microsecond,
                 tzinfo |-> tzinfo])

\* parser._build_tzinfo
_build_tzinfo(tzinfos, tzname, tzoffset) ==
    IF tzinfos.kind = "callable" THEN tzinfos.value
    ELSE IF tzname # None /\ Val(tzname) \in tzinfos.names THEN tzinfos.value
    ELSE None

\* parser._assign_tzname: without a method localize the AttributeError
\* handler calls dt.replace(tzname=tzname), which raises TypeError (replace
\* has no such keyword) from inside the handler; a TypeError of localize
\* itself is caught
_assign_tzname(dt, tzname) ==
    IF tzinfo_of(dt) = None THEN Return(dt)
    ELSE IF Val(tzinfo_of(dt)).localize = "absent" THEN Raise("TypeError")
    ELSE Return(dt)

\* the local-zone rule after _assign_tzname (1367-1370); a is its outcome
local_zone_rule(a, naive, tzname, env) ==
    IF ~returned(a) THEN a
    ELSE IF env.local_name # tzname /\ tzname \in UTCZONE
    THEN replace_tzinfo(naive, Some(tz_UTC))
    ELSE a

\* the resolver rule (1357-1359); r is what naive.replace(tzinfo=...) gave
resolver_rule(r, tzname) == IF ~returned(r) THEN r ELSE _assign_tzname(r.value, tzname)

\* parser._build_tzaware_datetime; env holds time.tzname, the name the local
\* zone gives the timestamp, and the local zone's localize
_build_tzaware_datetime(naive, res, tzinfos, env) ==
    IF \/ tzinfos.kind = "callable"
       \/ /\ tzinfos.kind = "dict"
          /\ tzinfos.names # {}
          /\ res.tzname # None
          /\ Val(res.tzname) \in tzinfos.names
    THEN resolver_rule(replace_tzinfo(naive, _build_tzinfo(tzinfos, res.tzname, res.tzoffset)),
                       res.tzname)
    ELSE IF res.tzname \notin {None, Some("")} /\ Val(res.tzname) \in env.tzname
    THEN local_zone_rule(_assign_tzname(replace_tzinfo(naive, Some(tz_tzlocal(env))).value,
                                        res.tzname),
                         naive, Val(res.tzname), env)
    ELSE IF res.tzoffset = Some(0)
    THEN replace_tzinfo(naive, Some(tz_UTC))
    ELSE IF res.tzoffset # None
    THEN replace_tzinfo(naive, Some(tz_tzoffset(res.tzname, Val(res.tzoffset))))
    ELSE IF res.tzname \in {None, Some("")}
    THEN Return(naive)
    ELSE replace_tzinfo(naive, Some(tz_tzstr(Val(res.tzname))))

\* parser._parse.  Line 955 calls _timelex.split(timestr) on the class, and
\* split is declared `def split(self, s)` with no classmethod decorator:
\* timestr is bound to self, s is left without a value, and the call raises
\* TypeError before the tokenizer runs.  Nothing of lines 956-1111 is reached
\* from here.
_parse(timestr, dayfirst, yearfirst, fuzzy) == Raise("TypeError")

\* parser.parse: _parse, the two result checks, the naive timestamp and,
\* unless ignoretz, the zone; a ValueError of the builders is raised again
\* as ValueError.  env is the process environment the zone rules read.
parse(timestr, default, ignoretz, tzinfos, dayfirst, yearfirst, fuzzy, env) ==
    LET p == _parse(timestr, dayfirst, yearfirst, fuzzy)
        ret == _build_naive_datetime(p.value, default)
    IN  IF ~returned(p) THEN p
        ELSE IF result_len(p.value) = 0 THEN Raise("ValueError")
        ELSE IF ~returned(ret) \/ ignoretz THEN ret
        ELSE _build_tzaware_datetime(ret.value, p.value, tzinfos, env)

-----------------------------------------------------------------------------
(* Input texts: a text is a tuple of one-character strings *)

DigitChars == <<"0", "1", "2", "3", "4", "5", "6", "7", "8", "9">>

\* the decimal digits of n, zero-padded to width w
RECURSIVE zfill(_, _)
zfill(n, w) ==
    IF w = 0 THEN <<>> ELSE zfill(n \div 10, w - 1) \o <<DigitChars[(n % 10) + 1]>>

\* str(n) for 0 <= n <= 99
str2(n) == IF n < 10 THEN zfill(n, 1) ELSE zfill(n, 2)

\* YYYY-MM-DD
IsoDate(y, mo, d) == zfill(y, 4) \o <<"-">> \o zfill(mo, 2) \o <<"-">> \o zfill(d, 2)

\* AA/BB/YYYY
SlashDate(a, b, y) == zfill(a, 2) \o <<"/">> \o zfill(b, 2) \o <<"/">> \o zfill(y, 4)

\* HH:MM:SS
Clock(h, mi, sec) == zfill(h, 2) \o <<":">> \o zfill(mi, 2) \o <<":">> \o zfill(sec, 2)

\* datetime.isoformat() of a timestamp with microsecond 0
isoformat(dt) ==
    IsoDate(dt.year, dt.month, dt.day) \o <<"T">> \o Clock(dt.hour, dt.minute, dt.second)

AmPmMarkers == {<<"A", "M">>, <<"P", "M">>}

\* HH:MM AM, HH:MM PM
Clock12(h, mi, marker) == zfill(h, 2) \o <<":">> \o zfill(mi, 2) \o <<" ">> \o marker

\* 3pm, 11am
HourMarker(h, marker) ==
    str2(h) \o (IF marker = <<"A", "M">> THEN <<"a", "m">> ELSE <<"p", "m">>)

\* HH:MM:SS.f
ClockFrac(h, mi, sec, frac) == Clock(h, mi, sec) \o <<".">> \o frac

February30 == <<"F", "e", "b", "r", "u", "a", "r", "y", " ", "3", "0">>

YMDs(years, months) ==
    {t \in years \X months \X (1..31) : t[3] <= days_in_month(t[1], t[2])}

IsoDates == {IsoDate(t[1], t[2], t[3]) : t \in YMDs({1999, 2023, 2024}, 1..12)}

SlashDates ==
    {SlashDate(t[2], t[3], t[1]) : t \in YMDs({2023}, 1..12)}
    \cup {SlashDate(t[3], t[2], t[1]) : t \in YMDs({2023}, 1..12)}

Clock12s == {Clock12(h, mi, k) : h \in 0..12, mi \in {0, 30}, k \in AmPmMarkers}

HourMarkers == {HourMarker(h, k) : h \in 0..12, k \in AmPmMarkers}

FracTexts ==
    {SubSeq(f, 1, n) : f \in {<<"1", "2", "3", "4", "5", "6">>,
                              <<"0", "0", "0", "0", "0", "1">>,
                              <<"9", "9", "9", "9", "9", "9">>},
                       n \in 1..6}

ClockFracs == {ClockFrac(12, 30, sec, f) : sec \in {0, 45, 59}, f \in FracTexts}

IsoTimestamps ==
    {datetime(t[1], t[2], t[3], h, mi, sec, 0) :
        t \in YMDs({2023, 2024}, {1, 2, 12}),
        h \in {0, 12, 23}, mi \in {0, 59}, sec \in {0, 59}}

IsoDateTimes == {isoformat(dt) : dt \in IsoTimestamps}

\* texts holding a token of no category: '#' after a date, a six-letter word
UnknownTokenTexts ==
    {IsoDate(2023, 1, 2) \o <<" ", "#">>,
     <<"x", "y", "z", "z", "y", "x">>}

\* clock times with one component out of range: 25:00:00, 12:60:00, 12:30:60
InvalidClocks ==
    {Clock(h, 0, 0) : h \in {24, 25, 99}}
    \cup {Clock(12, mi, 0) : mi \in {60, 61, 99}}
    \cup {Clock(12, 30, sec) : sec \in {60, 61, 99}}

\* runs of digits and of letters
DigitRuns ==
    {<<"5">>, <<"1", "2">>, <<"4", "5">>, <<"3", "4">>, <<"4", "4", "7">>,
     <<"2", "0", "0", "9">>, <<"1", "2", "3", "4", "5", "6">>}

LetterRuns == {<<"a">>, <<"b", "c">>, <<"S", "e", "p">>, <<"p", "m">>}

\* digits '.' digits, letters '.' letters, digits ',' digits
DottedNumbers == {a \o <<".">> \o b : a \in DigitRuns, b \in DigitRuns}

DottedWords == {a \o <<".">> \o b : a \in LetterRuns, b \in LetterRuns}

CommaNumbers == {a \o <<",">> \o b : a \in DigitRuns, b \in DigitRuns}

\* the texts the tokenizer is built on
LexTexts ==
    DottedNumbers \cup DottedWords \cup CommaNumbers \cup DigitRuns \cup LetterRuns
    \cup {<<>>,
          <<"t", "e", "s", "t", " ", "w", "o", "r", "d">>,
          IsoDate(2023, 1, 1) \o <<" ">> \o Clock(12, 30, 45),
          <<"S", "e", "p", ".", "2", "0", ".", "2", "0", "0", "9">>,
          <<"4", ":", "3", "0", ":", "2", "1", ".", "4", "4", "7">>,
          <<"1", ".", "2", ".", "3">>, <<"1", "2", ".">>, <<"a", "b", ".">>,
          <<"a", ".", "1">>, <<"1", ".", "a">>, <<"1", "2", ",", "a">>,
          <<"a", ".", " ">>, <<"1", ".", " ">>, <<"a", ".", "b", ".", "c">>,
          <<"1", "2", ",", "3", ".", "4", ".">>, <<" ", "1">>}

TimeStrs ==
    IsoDates \cup SlashDates \cup Clock12s \cup HourMarkers \cup ClockFracs
    \cup IsoDateTimes \cup {February30} \cup UnknownTokenTexts \cup InvalidClocks

\* the process environment: time.tzname, the name the local zone gives the
\* timestamp at hand, and what the local zone's localize does
TzEnv(tzname, local_name, localize) ==
    [tzname |-> tzname, local_name |-> local_name, localize |-> localize]

TzEnvs ==
    UNION {{TzEnv(ns, n, l) : n \in ns, l \in LocalizeKinds} :
              ns \in {{"EST", "EDT"}, {"GMT", "BST"}}}

\* the environment of the calls of parse
HostEnv == TzEnv({"GMT", "BST"}, "BST", "absent")

\* the zone names and offsets a result carries
TzNames == {None, Some(""), Some("EST"), Some("GMT"), Some("XYZ")}

TzOffsets == {None, Some(0), Some(3600), Some(-18000)}

ZoneResults ==
    {[_result EXCEPT !.tzname = n, !.tzoffset = o] : n \in TzNames, o \in TzOffsets}

\* what a resolver hands out for 'EST': a zone object or a number of seconds
ResolverValues ==
    {Some(Zone("resolver", Some("EST"), Some(-18000), l)) : l \in LocalizeKinds}
    \cup {Some(Zone("int", None, Some(-18000), "absent"))}

Tzinfos ==
    {NoTzinfos, DictTzinfos({}, None)}
    \cup {DictTzinfos({"EST"}, v) : v \in ResolverValues}
    \cup {CallableTzinfos(v) : v \in ResolverValues \cup {None}}

\* the naive timestamps handed to _build_tzaware_datetime
Naives == {datetime(2023, 6, 15, 12, 30, 0, 0), datetime(2023, 12, 31, 23, 59, 59, 0)}

\* the baseline timestamps handed in as `default`
Defaults ==
    {datetime(2023, 1, 31, 5, 6, 7, 8),
     datetime(2024, 3, 30, 0, 0, 0, 0),
     datetime(2023, 6, 15, 0, 0, 0, 0)}

\* the partial results handed to _build_naive_datetime
Results ==
    {[_result EXCEPT !.year = y, !.month = mo, !.day = d, !.weekday = wd,
                     !.hour = h, !.minute = mi, !.second = sec,
                     !.microsecond = us] :
        y \in {None, Some(2023), Some(2024)},
        mo \in {None, Some(2), Some(4), Some(12), Some(13)},
        d \in {None, Some(1), Some(30), Some(31)},
        wd \in {None, Some(0), Some(4), Some(6)},
        h \in {None, Some(23), Some(24)},
        mi \in {None, Some(59)},
        sec \in {None, Some(30)},
        us \in {None, Some(123000)}}

-----------------------------------------------------------------------------
(* class _ymd(list): the year/month/day accumulator.  List positions are   *)
(* Python's, counted from 0; a value handed to append is an int or a str.   *)

PyInt(n) == [type |-> "int", n |-> n]

PyStr(s) == [type |-> "str", s |-> s]

\* label=None of append
NoLabel == "None"

\* str.isdigit() on the characters the inputs are made of
isdigit(s) ==
    /\ Len(s) > 0
    /\ \A i \in 1..Len(s) :
         s[i] \in {"0", "1", "2", "3", "4", "5", "6", "7", "8", "9"}

\* the value of one decimal digit character
digit_value(c) == CHOOSE n \in 0..9 : DigitChars[n + 1] = c

\* int(s) of a str of decimal digits
RECURSIVE int_of_digits(_)
int_of_digits(s) ==
    IF Len(s) = 0 THEN 0
    ELSE 10 * int_of_digits(SubSeq(s, 1, Len(s) - 1)) + digit_value(s[Len(s)])

\* int(val): a str that is not all digits raises ValueError
int(val) ==
    IF val.type = "int" THEN Return(val.n)
    ELSE IF isdigit(val.s) THEN Return(int_of_digits(val.s))
    ELSE Raise("ValueError")

\* _ymd.__init__ with no arguments
_ymd ==
    [vals |-> <<>>, century_specified |-> FALSE,
     dstridx |-> None, mstridx |-> None, ystridx |-> None]

has_year(self) == self.ystridx # None

has_month(self) == self.mstridx # None

has_day(self) == self.dstridx # None

could_be_day(self, value) ==
    IF has_day(self) THEN FALSE ELSE 1 <= value /\ value <= 31

\* self[i] of the list
getitem(self, i) == self.vals[i + 1]

\* what a call leaves behind: the accumulator and the call's outcome
Effect(self, out) == [self |-> self, out |-> out]

\* append with the duplicate-label checks left out
append_nodup(self, val, label) ==
    LET century == IF val.type = "str"
                   THEN isdigit(val.s) /\ Len(val.s) > 2
                   ELSE val.n > 100
        s1 == IF century THEN [self EXCEPT !.century_specified = TRUE] ELSE self
        lab == IF century THEN "Y" ELSE label
        n == int(val)
    IN  IF century /\ label \notin {NoLabel, "Y"} THEN Effect(s1, Raise("ValueError"))
        ELSE IF ~returned(n) THEN Effect(s1, n)
        ELSE LET s2 == [s1 EXCEPT !.vals = Append(s1.vals, n.value)]
                 last == Some(Len(s2.vals) - 1)
             IN  IF lab = "M" THEN Effect([s2 EXCEPT !.mstridx = last], Return(None))
                 ELSE IF lab = "D" THEN Effect([s2 EXCEPT !.dstridx = last], Return(None))
                 ELSE IF lab = "Y" THEN Effect([s2 EXCEPT !.ystridx = last], Return(None))
                 ELSE Effect(s2, Return(None))

\* _ymd.append(val, label): the value joins the list before the label is
\* checked against the labels already present
append(self, val, label) ==
    LET century == IF val.type = "str"
                   THEN isdigit(val.s) /\ Len(val.s) > 2
                   ELSE val.n > 100
        s1 == IF century THEN [self EXCEPT !.century_specified = TRUE] ELSE self
        lab == IF century THEN "Y" ELSE label
        n == int(val)
    IN  IF century /\ label \notin {NoLabel, "Y"} THEN Effect(s1, Raise("ValueError"))
        ELSE IF ~returned(n) THEN Effect(s1, n)
        ELSE LET s2 == [s1 EXCEPT !.vals = Append(s1.vals, n.value)]
                 last == Some(Len(s2.vals) - 1)
             IN  IF lab = "M"
                 THEN IF has_month(s2) THEN Effect(s2, Raise("ValueError"))
                      ELSE Effect([s2 EXCEPT !.mstridx = last], Return(None))
                 ELSE IF lab = "D"
                 THEN IF has_day(s2) THEN Effect(s2, Raise("ValueError"))
                      ELSE Effect([s2 EXCEPT !.dstridx = last], Return(None))
                 ELSE IF lab = "Y"
                 THEN IF has_year(s2) THEN Effect(s2, Raise("ValueError"))
                      ELSE Effect([s2 EXCEPT !.ystridx = last], Return(None))
                 ELSE Effect(s2, Return(None))

\* the dict built at lines 538-542: the labels that have a position
strids_of(self) ==
    {k \in {"y", "m", "d"} :
        \/ k = "y" /\ has_year(self)
        \/ k = "m" /\ has_month(self)
        \/ k = "d" /\ has_day(self)}

\* _resolve_from_stridxs: fills the one missing key of the dict it is given
\* and asserts that more than one label has a position; returns nothing
_resolve_from_stridxs(self, strids) ==
    LET filled == IF Len(self.vals) = 3 /\ Cardinality(strids) = 2
                  THEN {"y", "m", "d"} ELSE strids
    IN  IF Cardinality(filled) > 1 THEN Return(filled) ELSE Raise("AssertionError")

\* the list with position k left out (the comprehensions at 616, 646, 688)
others(self, k) ==
    LET keep == {i \in 0..(Len(self.vals) - 1) : i # k}
        lo == CHOOSE i \in keep : \A j \in keep : i <= j
        hi == CHOOSE i \in keep : \A j \in keep : j <= i
    IN  <<getitem(self, lo), getitem(self, hi)>>

\* list.remove(v) on a two-element list: the first element equal to v goes
remove(other, v) == IF other[1] = v THEN <<other[2]>> ELSE <<other[1]>>

\* the (year, month, day) tuple resolve_ymd returns
YMD(year, month, day) == Return(<<year, month, day>>)

\* resolve_ymd, one member or two members with a month label (549-559)
resolve_one(self, len_ymd) ==
    LET s0 == Some(getitem(self, 0)) IN
    IF has_month(self)
    THEN LET month == Some(getitem(self, Val(self.mstridx))) IN
         IF len_ymd = 2 \/ has_year(self)
         THEN YMD(IF has_year(self) THEN Some(getitem(self, Val(self.ystridx))) ELSE s0,
                  month, None)
         ELSE YMD(None, month, s0)
    ELSE IF len_ymd > 1 \/ has_year(self)
    THEN YMD(IF has_year(self) THEN Some(getitem(self, Val(self.ystridx))) ELSE s0,
             None, None)
    ELSE YMD(None, None, None)

\* resolve_ymd, two members (561-606)
resolve_two(self, dayfirst) ==
    LET s0 == getitem(self, 0)
        s1 == getitem(self, 1)
    IN  IF has_year(self)
        THEN LET other == getitem(self, 1 - Val(self.ystridx)) IN
             IF could_be_day(self, other)
             THEN YMD(Some(getitem(self, Val(self.ystridx))), None, Some(other))
             ELSE YMD(Some(getitem(self, Val(self.ystridx))), Some(other), None)
        ELSE IF has_month(self)
        THEN LET other == getitem(self, 1 - Val(self.mstridx)) IN
             IF could_be_day(self, other)
             THEN YMD(None, Some(getitem(self, Val(self.mstridx))), Some(other))
             ELSE YMD(Some(other), Some(getitem(self, Val(self.mstridx))), None)
        ELSE IF has_day(self)
        THEN LET other == getitem(self, 1 - Val(self.dstridx)) IN
             IF could_be_day(self, other)
             THEN YMD(None, Some(other), Some(getitem(self, Val(self.dstridx))))
             ELSE YMD(Some(other), None, Some(getitem(self, Val(self.dstridx))))
        ELSE IF s0 > 31 THEN YMD(Some(s0), Some(s1), None)
        ELSE IF s1 > 31 THEN YMD(Some(s1), Some(s0), None)
        ELSE IF dayfirst /\ s1 <= 12 THEN YMD(None, Some(s1), Some(s0))
        ELSE IF s0 > 12 THEN YMD(None, Some(s1), Some(s0))
        ELSE YMD(None, Some(s0), Some(s1))

\* resolve_ymd, three members with a year label (610-642); list has no
\* method get, so line 613 raises AttributeError
resolve_three_year(self, nstrids, dayfirst) ==
    LET year == Some(getitem(self, Val(self.ystridx)))
        other == others(self, Val(self.ystridx))
    IN  IF nstrids > 1 THEN Raise("AttributeError")
        ELSE IF has_month(self)
        THEN LET month == getitem(self, Val(self.mstridx)) IN
             YMD(year, Some(month), Some(remove(other, month)[1]))
        ELSE IF has_day(self)
        THEN LET day == getitem(self, Val(self.dstridx)) IN
             YMD(year, Some(remove(other, day)[1]), Some(day))
        ELSE IF other[1] > 12 /\ other[2] <= 12 THEN YMD(year, Some(other[2]), Some(other[1]))
        ELSE IF other[2] > 12 /\ other[1] <= 12 THEN YMD(year, Some(other[1]), Some(other[2]))
        ELSE IF dayfirst /\ other[2] <= 31 THEN YMD(year, Some(other[2]), Some(other[1]))
        ELSE IF other[1] <= 31 THEN YMD(year, Some(other[1]), Some(other[2]))
        ELSE YMD(year, None, None)

\* resolve_ymd, three members with a month label and no year label (644-683)
resolve_three_month(self, yearfirst, dayfirst) ==
    LET month == Some(getitem(self, Val(self.mstridx)))
        other == others(self, Val(self.mstridx))
    IN  IF has_year(self)
        THEN LET year == getitem(self, Val(self.ystridx)) IN
             YMD(Some(year), month, Some(remove(other, year)[1]))
        ELSE IF has_day(self)
        THEN LET day == getitem(self, Val(self.dstridx)) IN
             YMD(Some(remove(other, day)[1]), month, Some(day))
        ELSE IF other[1] > 31 /\ other[2] <= 31 THEN YMD(Some(other[1]), month, Some(other[2]))
        ELSE IF other[2] > 31 /\ other[1] <= 31 THEN YMD(Some(other[2]), month, Some(other[1]))
        ELSE IF other[1] > 12 /\ other[2] <= 12 THEN YMD(Some(other[2]), month, Some(other[1]))
        ELSE IF other[2] > 12 /\ other[1] <= 12 THEN YMD(Some(other[1]), month, Some(other[2]))
        ELSE IF yearfirst /\ other[1] <= 31 THEN YMD(Some(other[1]), month, Some(other[2]))
        ELSE IF ~yearfirst /\ other[2] <= 31 THEN YMD(Some(other[2]), month, Some(other[1]))
        ELSE IF dayfirst = yearfirst THEN YMD(Some(other[2]), month, Some(other[1]))
        ELSE IF dayfirst THEN YMD(Some(other[2]), month, Some(other[1]))
        ELSE YMD(Some(other[1]), month, Some(other[2]))

\* resolve_ymd, three members with only a day label (685-721)
resolve_three_day(self, yearfirst, dayfirst) ==
    LET day == Some(getitem(self, Val(self.dstridx)))
        other == others(self, Val(self.dstridx))
    IN  IF has_year(self)
        THEN LET year == getitem(self, Val(self.ystridx)) IN
             YMD(Some(year), Some(remove(other, year)[1]), day)
        ELSE IF other[1] > 31 /\ other[2] <= 12 THEN YMD(Some(other[1]), Some(other[2]), day)
        ELSE IF other[2] > 31 /\ other[1] <= 12 THEN YMD(Some(other[2]), Some(other[1]), day)
        ELSE IF other[1] > 12 /\ other[2] <= 31 THEN YMD(Some(other[2]), Some(other[1]), day)
        ELSE IF other[2] > 12 /\ other[1] <= 31 THEN YMD(Some(other[1]), Some(other[2]), day)
        ELSE IF yearfirst /\ other[1] <= 12 THEN YMD(Some(other[1]), Some(other[2]), day)
        ELSE IF ~yearfirst /\ other[2] <= 12 THEN YMD(Some(other[2]), Some(other[1]), day)
        ELSE IF dayfirst = yearfirst THEN YMD(Some(other[2]), Some(other[1]), day)
        ELSE IF dayfirst THEN YMD(Some(other[2]), Some(other[1]), day)
        ELSE YMD(Some(other[1]), Some(other[2]), day)

\* resolve_ymd, three members without labels (723-832)
resolve_three_plain(self, yearfirst, dayfirst) ==
    LET a == getitem(self, 0)
        b == getitem(self, 1)
        c == getitem(self, 2)
        ymd_ == YMD(Some(a), Some(b), Some(c))
        dmy == YMD(Some(c), Some(b), Some(a))
        mdy == YMD(Some(c), Some(a), Some(b))
        dym == YMD(Some(b), Some(c), Some(a))
    IN  IF (a > 31 \/ self.ystridx = Some(0)) /\ b <= 12 /\ c <= 31
        THEN IF yearfirst \/ a > 31 THEN ymd_ ELSE dmy
        ELSE IF a > 12 /\ (b <= 12 \/ c <= 12) /\ c <= 31
        THEN IF b <= 12 THEN dmy ELSE dym
        ELSE IF b > 31 /\ a <= 12 /\ c <= 12
        THEN YMD(Some(b), Some(a), Some(c))
        ELSE IF b > 12 /\ c <= 31
        THEN IF dayfirst /\ c <= 12 THEN dym
             ELSE IF a <= 12 THEN mdy
             ELSE dmy
        ELSE IF c > 31
        THEN IF dayfirst /\ b <= 12 THEN dmy
             ELSE IF yearfirst THEN ymd_
             ELSE IF a <= 12 THEN mdy
             ELSE dmy
        ELSE IF a > 12 THEN dmy
        ELSE IF b > 12 THEN IF dayfirst THEN dym ELSE mdy
        ELSE IF c > 12
        THEN IF dayfirst THEN dmy ELSE IF yearfirst THEN ymd_ ELSE mdy
        ELSE IF dayfirst THEN dmy ELSE IF yearfirst THEN ymd_ ELSE mdy

\* _ymd.resolve_ymd(yearfirst, dayfirst)
resolve_ymd(self, yearfirst, dayfirst) ==
    LET len_ymd == Len(self.vals)
        strids == strids_of(self)
        checked == IF (len_ymd = Cardinality(strids) /\ len_ymd > 0)
                      \/ (len_ymd = 3 /\ Cardinality(strids) = 2)
                   THEN _resolve_from_stridxs(self, strids)
                   ELSE Return(strids)
    IN  IF ~returned(checked) THEN checked
        ELSE IF len_ymd > 3 THEN Raise("ValueError")
        ELSE IF len_ymd = 1 \/ (has_month(self) /\ len_ymd = 2)
        THEN resolve_one(self, len_ymd)
        ELSE IF len_ymd = 2 THEN resolve_two(self, dayfirst)
        ELSE IF len_ymd = 3
        THEN IF has_year(self)
             THEN resolve_three_year(self, Cardinality(checked.value), dayfirst)
             ELSE IF has_month(self) THEN resolve_three_month(self, yearfirst, dayfirst)
             ELSE IF has_day(self) THEN resolve_three_day(self, yearfirst, dayfirst)
             ELSE resolve_three_plain(self, yearfirst, dayfirst)
        ELSE YMD(None, None, None)

-----------------------------------------------------------------------------
(* class _timelex: the tokenizer.  instream holds the characters not yet   *)
(* read; a token is the tuple (state, token) get_token returns.             *)

Letters ==
    {"a", "b", "c", "d", "e", "f", "g", "h", "i", "j", "k", "l", "m",
     "n", "o", "p", "q", "r", "s", "t", "u", "v", "w", "x", "y", "z",
     "A", "B", "C", "D", "E", "F", "G", "H", "I", "J", "K", "L", "M",
     "N", "O", "P", "Q", "R", "S", "T", "U", "V", "W", "X", "Y", "Z"}

\* nextchar.isalpha()
isword(nextchar) == nextchar \in Letters

\* nextchar.isdecimal()
isnum(nextchar) == \E n \in 1..10 : DigitChars[n] = nextchar

\* nextchar.isspace()
isspace(nextchar) == nextchar \in {" ", "\t", "\n"}

\* _timelex.__init__ on a str or a character stream
_timelex(instream) ==
    [instream |-> instream, charstack |-> <<>>, tokenstack |-> <<>>, eof |-> FALSE]

\* _get_char: the pushed-back characters first, then the stream
_get_char(self) ==
    IF Len(self.charstack) > 0
    THEN [self |-> [self EXCEPT !.charstack = Tail(@)], c |-> Some(Head(self.charstack))]
    ELSE IF Len(self.instream) > 0
    THEN [self |-> [self EXCEPT !.instream = Tail(@)], c |-> Some(Head(self.instream))]
    ELSE [self |-> self, c |-> None]

_push_char(self, c) == [self EXCEPT !.charstack = <<c>> \o @]

\* the locals of get_token when its loop is left
Scanned(self, state, token, seenletters) ==
    [self |-> self, state |-> state, token |-> token, seenletters |-> seenletters]

RECURSIVE get_token_loop(_, _, _, _)

\* state 'a', nextchar is '.': the character after it decides (171-195);
\* g2 is what _get_char gave for it
word_dot(g2, nextchar, state, token, seenletters) ==
    IF g2.c = None
    THEN Scanned(_push_char([g2.self EXCEPT !.eof = TRUE], nextchar),
                 state, token, seenletters)
    ELSE IF isword(Val(g2.c))
    THEN get_token_loop(g2.self, state, Some(Val(token) \o <<nextchar, Val(g2.c)>>), TRUE)
    ELSE IF isnum(Val(g2.c))
    THEN Scanned(_push_char(g2.self, Val(g2.c)), state,
                 Some(Val(token) \o <<nextchar>>), seenletters)
    ELSE Scanned(_push_char(_push_char(g2.self, Val(g2.c)), nextchar),
                 state, token, seenletters)

\* state '0', nextchar is '.' or ',': the character after it decides (209-233)
number_sep(g2, nextchar, state, token, seenletters) ==
    IF g2.c = None
    THEN Scanned(_push_char([g2.self EXCEPT !.eof = TRUE], nextchar),
                 state, token, seenletters)
    ELSE IF isnum(Val(g2.c))
    THEN get_token_loop(g2.self, state, Some(Val(token) \o <<nextchar, Val(g2.c)>>),
                        seenletters)
    ELSE Scanned(_push_char(_push_char(g2.self, Val(g2.c)), nextchar),
                 state, token, seenletters)

\* one character of the loop (148-237); self is the tokenizer after reading it
get_token_char(self, nextchar, state, token, seenletters) ==
    IF state = None
    THEN IF isword(nextchar)
         THEN get_token_loop(self, Some("a"), Some(<<nextchar>>), seenletters)
         ELSE IF isnum(nextchar)
         THEN get_token_loop(self, Some("0"), Some(<<nextchar>>), seenletters)
         ELSE IF isspace(nextchar)
         THEN Scanned(self, state, Some(<<" ">>), seenletters)
         ELSE Scanned(self, state, Some(<<nextchar>>), seenletters)
    ELSE IF state = Some("a")
    THEN IF isword(nextchar)
         THEN get_token_loop(self, state, Some(Val(token) \o <<nextchar>>), seenletters)
         ELSE IF nextchar = "."
         THEN word_dot(_get_char(self), nextchar, state, token, seenletters)
         ELSE Scanned(_push_char(self, nextchar), state, token, seenletters)
    ELSE IF state = Some("0")
    THEN IF isnum(nextchar)
         THEN get_token_loop(self, state, Some(Val(token) \o <<nextchar>>), seenletters)
         ELSE IF nextchar = "." \/ (nextchar = "," /\ Len(Val(token)) >= 2)
         THEN number_sep(_get_char(self), nextchar, state, token, seenletters)
         ELSE Scanned(_push_char(self, nextchar), state, token, seenletters)
    ELSE Scanned(self, state, token, seenletters)

\* nextchar = self._get_char(); None sets eof and leaves the loop (143-146)
get_token_read(g, state, token, seenletters) ==
    IF g.c = None
    THEN Scanned([g.self EXCEPT !.eof = TRUE], state, token, seenletters)
    ELSE get_token_char(g.self, Val(g.c), state, token, seenletters)

\* the while loop of get_token (139-237)
get_token_loop(self, state, token, seenletters) ==
    IF self.eof THEN Scanned(self, state, token, seenletters)
    ELSE get_token_read(_get_char(self), state, token, seenletters)

\* token.count(c)
count(token, c) == Cardinality({i \in 1..Len(token) : token[i] = c})

\* re.compile(r'([\.,])').split(token): the pieces and the separators
RECURSIVE _split_decimal(_)
_split_decimal(token) ==
    LET seps == {i \in 1..Len(token) : token[i] \in {".", ","}} IN
    IF seps = {} THEN <<token>>
    ELSE LET i == CHOOSE k \in seps : \A j \in seps : k <= j IN
         <<SubSeq(token, 1, i - 1), <<token[i]>>>>
         \o _split_decimal(SubSeq(token, i + 1, Len(token)))

\* token.replace(',', '.')
replace_comma(token) == [i \in 1..Len(token) |-> IF token[i] = "," THEN "." ELSE token[i]]

\* the pieces after the first that are not empty, each paired with state
RECURSIVE stacked(_, _)
stacked(state, l) ==
    IF Len(l) = 0 THEN <<>>
    ELSE (IF Len(Head(l)) > 0 THEN <<<<state, Some(Head(l))>>>> ELSE <<>>)
         \o stacked(state, Tail(l))

\* the comma rule (247-248) and the returned tuple (250)
comma_rule(self, state, token) ==
    Effect(self,
           Return(<<state,
                    IF state = Some("0.") /\ count(Val(token), ".") = 0
                    THEN Some(replace_comma(Val(token)))
                    ELSE token>>))

\* 241-245: the first piece is the token, the others go on tokenstack
split_token(r, l) ==
    comma_rule([r.self EXCEPT !.tokenstack = @ \o stacked(r.state, Tail(l))],
               r.state, Some(l[1]))

\* what follows the loop (239-250); r holds the locals
get_token_finish(r) ==
    IF /\ r.state \in {Some("a"), Some("0")}
       /\ \/ r.seenletters
          \/ count(Val(r.token), ".") > 1
          \/ Val(r.token)[Len(Val(r.token))] \in {".", ","}
    THEN split_token(r, _split_decimal(Val(r.token)))
    ELSE comma_rule(r.self, r.state, r.token)

\* _timelex.get_token
get_token(self) == get_token_finish(get_token_loop(self, None, None, FALSE))

\* __next__ given what get_token left: a token of state None ends iteration
next_of(e) ==
    IF e.out.value[1] = None THEN Effect(e.self, Raise("StopIteration")) ELSE e

\* _timelex.__next__
__next__(self) == next_of(get_token(self))

RECURSIVE list_items(_)

list_cons(item, rest) == Effect(rest.self, Return(<<item>> \o rest.out.value))

list_step(e) ==
    IF ~returned(e.out) THEN Effect(e.self, Return(<<>>))
    ELSE list_cons(e.out.value, list_items(e.self))

\* list(self): __next__ until it raises StopIteration
list_items(self) == list_step(__next__(self))

\* _timelex.split(s), called on an instance
split(self, s) == list_items(_timelex(s))

\* _timelex_split_decimal(s): the helper no method calls
_timelex_split_decimal(s) ==
    IF count(s, ".") = 0 THEN <<s>>
    ELSE IF \E i \in 1..(Len(s) - 1) : s[i] = "." /\ s[i + 1] = "." THEN <<s>>
    ELSE IF count(s, ".") = 1
    THEN LET i == CHOOSE k \in 1..Len(s) : s[k] = "." IN
         <<SubSeq(s, 1, i - 1), <<".">>, SubSeq(s, i + 1, Len(s))>>
    ELSE <<s>>

-----------------------------------------------------------------------------
(* class parserinfo: the name tables.  __init__ (lines 369-375) builds each  *)
(* lookup dict from its class attribute with _convert, so the dicts are the  *)
(* same for every instance of the class; a name is a text.                   *)

ascii_uppercase ==
    <<"A", "B", "C", "D", "E", "F", "G", "H", "I", "J", "K", "L", "M",
      "N", "O", "P", "Q", "R", "S", "T", "U", "V", "W", "X", "Y", "Z">>

ascii_lowercase ==
    <<"a", "b", "c", "d", "e", "f", "g", "h", "i", "j", "k", "l", "m",
      "n", "o", "p", "q", "r", "s", "t", "u", "v", "w", "x", "y", "z">>

\* c.lower() of one character
lower_char(c) ==
    IF \E n \in 1..26 : ascii_uppercase[n] = c
    THEN ascii_lowercase[CHOOSE n \in 1..26 : ascii_uppercase[n] = c]
    ELSE c

\* name.lower()
lower(name) == [n \in 1..Len(name) |-> lower_char(name[n])]

\* parserinfo.JUMP; an entry that is one str is a group of one name
JUMP ==
    <<<<<<" ">>>>,
      <<<<".">>>>,
      <<<<",">>>>,
      <<<<";">>>>,
      <<<<"-">>>>,
      <<<<"/">>>>,
      <<<<"'">>>>,
      <<<<"a", "t">>>>,
      <<<<"o", "n">>>>,
      <<<<"a", "n", "d">>>>,
      <<<<"a", "d">>>>,
      <<<<"m">>>>,
      <<<<"t">>>>,
      <<<<"o", "f">>>>,
      <<<<"s", "t">>>>,
      <<<<"n", "d">>>>,
      <<<<"r", "d">>>>,
      <<<<"t", "h">>>>>>

\* parserinfo.WEEKDAYS
WEEKDAYS ==
    <<<<<<"M", "o", "n">>, <<"M", "o", "n", "d", "a", "y">>>>,
      <<<<"T", "u", "e">>, <<"T", "u", "e", "s", "d", "a", "y">>>>,
      <<<<"W", "e", "d">>, <<"W", "e", "d", "n", "e", "s", "d", "a", "y">>>>,
      <<<<"T", "h", "u">>, <<"T", "h", "u", "r", "s", "d", "a", "y">>>>,
      <<<<"F", "r", "i">>, <<"F", "r", "i", "d", "a", "y">>>>,
      <<<<"S", "a", "t">>, <<"S", "a", "t", "u", "r", "d", "a", "y">>>>,
      <<<<"S", "u", "n">>, <<"S", "u", "n", "d", "a", "y">>>>>>

\* parserinfo.MONTHS
MONTHS ==
    <<<<<<"J", "a", "n">>, <<"J", "a", "n", "u", "a", "r", "y">>>>,
      <<<<"F", "e", "b">>, <<"F", "e", "b", "r", "u", "a", "r", "y">>>>,
      <<<<"M", "a", "r">>, <<"M", "a", "r", "c", "h">>>>,
      <<<<"A", "p", "r">>, <<"A", "p", "r", "i", "l">>>>,
      <<<<"M", "a", "y">>, <<"M", "a", "y">>>>,
      <<<<"J", "u", "n">>, <<"J", "u", "n", "e">>>>,
      <<<<"J", "u", "l">>, <<"J", "u", "l", "y">>>>,
      <<<<"A", "u", "g">>, <<"A", "u", "g", "u", "s", "t">>>>,
      <<<<"S", "e", "p">>, <<"S", "e", "p", "t">>, <<"S", "e", "p", "t", "e", "m", "b", "e", "r">>>>,
      <<<<"O", "c", "t">>, <<"O", "c", "t", "o", "b", "e", "r">>>>,
      <<<<"N", "o", "v">>, <<"N", "o", "v", "e", "m", "b", "e", "r">>>>,
      <<<<"D", "e", "c">>, <<"D", "e", "c", "e", "m", "b", "e", "r">>>>>>

\* parserinfo.HMS
HMS ==
    <<<<<<"h">>, <<"h", "o", "u", "r">>, <<"h", "o", "u", "r", "s">>>>,
      <<<<"m">>, <<"m", "i", "n", "u", "t", "e">>, <<"m", "i", "n", "u", "t", "e", "s">>>>,
      <<<<"s">>, <<"s", "e", "c", "o", "n", "d">>, <<"s", "e", "c", "o", "n", "d", "s">>>>>>

\* parserinfo.AMPM
AMPM ==
    <<<<<<"a", "m">>, <<"a">>>>,
      <<<<"p", "m">>, <<"p">>>>>>

\* parserinfo.UTCZONE, each name spelled as its characters
UTCZONE_names ==
    <<<<<<"U", "T", "C">>>>,
      <<<<"G", "M", "T">>>>,
      <<<<"Z">>>>,
      <<<<"z">>>>>>

\* parserinfo.PERTAIN
PERTAIN ==
    <<<<<<"o", "f">>>>>>

\* the lowered names of entry i of a table
lowered(lst, i) == {lower(lst[i][j]) : j \in 1..Len(lst[i])}

\* parserinfo._convert: every name, lowered, maps to the position (from 0) of
\* its entry; a name met again takes the later position
_convert(lst) ==
    [k \in UNION {lowered(lst, i) : i \in 1..Len(lst)} |->
        (CHOOSE i \in 1..Len(lst) :
            /\ k \in lowered(lst, i)
            /\ \A j \in 1..Len(lst) : k \in lowered(lst, j) => j <= i) - 1]

\* the dicts __init__ builds (lines 369-375)
_jump == _convert(JUMP)

_weekdays == _convert(WEEKDAYS)

_months == _convert(MONTHS)

_hms == _convert(HMS)

_ampm == _convert(AMPM)

_utczone == _convert(UTCZONE_names)

_pertain == _convert(PERTAIN)

\* parserinfo.jump
jump(name) == lower(name) \in DOMAIN _jump

\* parserinfo.weekday
weekday(name) ==
    IF lower(name) \in DOMAIN _weekdays THEN Some(_weekdays[lower(name)]) ELSE None

\* parserinfo.month
month(name) ==
    IF lower(name) \in DOMAIN _months THEN Some(_months[lower(name)] + 1) ELSE None

\* parserinfo.hms
hms(name) ==
    IF lower(name) \in DOMAIN _hms THEN Some(_hms[lower(name)]) ELSE None

\* parserinfo.ampm
ampm(name) ==
    IF lower(name) \in DOMAIN _ampm THEN Some(_ampm[lower(name)]) ELSE None

\* parserinfo.pertain
pertain(name) == lower(name) \in DOMAIN _pertain

\* parserinfo.utczone
utczone(name) == lower(name) \in DOMAIN _utczone

\* dict.get(name) on a table kept as a set of <<name, value>> pairs
dict_get(table, name) ==
    IF \E e \in table : e[1] = name
    THEN Some((CHOOSE e \in table : e[1] = name)[2])
    ELSE None

\* parserinfo.tzoffset: the name is looked up as it is written
tzoffset(self, name) ==
    IF name \in DOMAIN _utczone THEN Some(0)
    ELSE dict_get(self.TZOFFSET, name)

\* res.century_specified = flag on a result (line 1099)
with_century(res, flag) ==
    [a \in ResultSlots \cup {"century_specified"} |->
        IF a = "century_specified" THEN flag ELSE res[a]]

\* `not res.tzname`: None or the empty text
no_tzname(res) == res.tzname = None \/ Val(res.tzname) = <<>>

\* parserinfo.validate: changes res in place and returns True
validate(self, res) ==
    LET y == IF res.year # None
             THEN convertyear(self, Val(res.year), res.century_specified)
             ELSE Return(0)
        r1 == IF res.year # None THEN [res EXCEPT !.year = Some(y.value)] ELSE res
        r2 == IF (r1.tzoffset = Some(0) /\ no_tzname(r1))
                 \/ r1.tzname = Some(<<"Z">>) \/ r1.tzname = Some(<<"z">>)
              THEN [r1 EXCEPT !.tzname = Some(<<"U", "T", "C">>), !.tzoffset = Some(0)]
              ELSE IF r1.tzoffset # Some(0) /\ ~no_tzname(r1) /\ utczone(Val(r1.tzname))
              THEN [r1 EXCEPT !.tzoffset = Some(0)]
              ELSE r1
    IN  IF ~returned(y) THEN [res |-> res, out |-> y]
        ELSE [res |-> r2, out |-> Return(TRUE)]

-----------------------------------------------------------------------------
(* parser._parse_numeric_token.  tokens is the token list (position 0 of    *)
(* Python is position 1 here), a token is a text, res is the result object   *)
(* the handler fills in, ymd the accumulator it appends to.                  *)

\* float(s) succeeds.  The tokens are runs of digits and dots, runs of
\* letters and single other characters; none spells an exponent, "inf" or
\* "nan", and none carries a sign, so float accepts a token exactly when it
\* is digits with at most one dot and at least one digit
is_float(s) ==
    /\ \A k \in 1..Len(s) : isnum(s[k]) \/ s[k] = "."
    /\ \E k \in 1..Len(s) : isnum(s[k])
    /\ count(s, ".") <= 1

\* the digits of a number text before and after its dot
whole_digits(s) ==
    IF count(s, ".") = 0 THEN s
    ELSE SubSeq(s, 1, (CHOOSE k \in 1..Len(s) : s[k] = ".") - 1)

frac_digits(s) ==
    IF count(s, ".") = 0 THEN <<>>
    ELSE SubSeq(s, (CHOOSE k \in 1..Len(s) : s[k] = ".") + 1, Len(s))

\* int(float(s)): the value with its fraction cut off
int_float(s) == int_of_digits(whole_digits(s))

\* float(s) < n and float(s) <= n for an integer n
float_lt(s, n) == int_float(s) < n

float_le(s, n) ==
    \/ int_float(s) < n
    \/ int_float(s) = n /\ \A k \in 1..Len(frac_digits(s)) : frac_digits(s)[k] = "0"

\* int((float(s) % 1) * 1000000), the digits after the dot read as millionths
float_micro(s) ==
    int_of_digits(SubSeq(frac_digits(s) \o <<"0", "0", "0", "0", "0", "0">>, 1, 6))

\* s[a:b] for 0 <= a <= b
slice(s, a, b) == SubSeq(s, a + 1, Min(b, Len(s)))

\* the next append of a statement list: skipped once an append has raised
then_append(e, val, label) ==
    IF returned(e.out) THEN append(e.self, val, label) ELSE e

\* append(s[:2], 'D'); append(s[2:4], 'M'); append(s[4:], 'Y')
append_dmy(ymd_, s) ==
    then_append(then_append(append(ymd_, PyStr(slice(s, 0, 2)), "D"),
                            PyStr(slice(s, 2, 4)), "M"),
                PyStr(slice(s, 4, Len(s))), "Y")

\* append(s[:n], 'Y'); append(s[-4:-2], 'M'); append(s[-2:], 'D') (1153-1158)
append_ymd_tail(ymd_, s, n) ==
    then_append(then_append(append(ymd_, PyStr(slice(s, 0, n)), "Y"),
                            PyStr(SubSeq(s, Len(s) - 3, Len(s) - 2)), "M"),
                PyStr(SubSeq(s, Len(s) - 1, Len(s))), "D")

\* append(s[:4], 'Y'); append(s[4:6], 'M'); append(s[6:], 'D') (1194-1196)
append_ymd(ymd_, s) ==
    then_append(then_append(append(ymd_, PyStr(slice(s, 0, 4)), "Y"),
                            PyStr(slice(s, 4, 6)), "M"),
                PyStr(slice(s, 6, Len(s))), "D")

\* the n-th day, counted from 1 at January 1 of year: the years that n runs
\* past are left behind, then the month that holds the day is found
RECURSIVE date_of_yearday(_, _)
date_of_yearday(year, n) ==
    IF n > 365 + (IF isleap(year) THEN 1 ELSE 0)
    THEN date_of_yearday(year + 1, n - 365 - (IF isleap(year) THEN 1 ELSE 0))
    ELSE LET m == CHOOSE m \in 1..12 :
                     /\ days_before_month(year, m) < n
                     /\ n <= days_before_month(year, m) + days_in_month(year, m)
         IN  datetime(year, m, n - days_before_month(year, m), 0, 0, 0, 0)

\* datetime.datetime(year, 1, 1) + datetime.timedelta(days=day_of_year - 1)
julian_date(year, day_of_year) ==
    IF day_of_year = 0
    THEN datetime(year - 1, 12, 31, 0, 0, 0, 0)
    ELSE date_of_yearday(year, day_of_year)

\* the Julian-day appends (1175-1180)
append_julian(ymd_, s) ==
    LET dt == julian_date(int_of_digits(slice(s, 0, 4)),
                          int_of_digits(slice(s, 4, Len(s))))
    IN  then_append(then_append(append(ymd_, PyInt(dt.year), "Y"),
                                PyInt(dt.month), "M"),
                    PyInt(dt.day), "D")

\* s[a:].isdigit() and 1900 <= int(s[a:]) <= 3000, and the same for s[:b]
plausible_year(t) ==
    isdigit(t) /\ 1900 <= int_of_digits(t) /\ int_of_digits(t) <= 3000

\* step 1 of the handler, lines 1124-1202: the appends to the accumulator
numeric_ymd(tokens, i, ymd_) ==
    LET s == tokens[i + 1]
        len_li == Len(s)
    IN  IF \/ (len_li = 4 /\ isdigit(s) /\ float_le(s, 3000))
           \/ (6 <= len_li /\ len_li <= 8 /\ isdigit(s)
               /\ slice(tokens, i + 1, i + 3) # <<<<".">>, <<".">>>>)
        THEN IF len_li = 8 \/ len_li = 6 THEN append_dmy(ymd_, s)
             ELSE IF len_li = 4 THEN append(ymd_, PyStr(s), "Y")
             ELSE Effect(ymd_, Return(None))
        ELSE IF len_li = 6 \/ len_li = 8
        THEN append_ymd_tail(ymd_, s, IF len_li = 6 THEN 2 ELSE 4)
        ELSE IF len_li \in {7, 8} /\ isdigit(s)
        THEN IF len_li = 7
             THEN IF plausible_year(slice(s, 4, Len(s))) THEN append_dmy(ymd_, s)
                  ELSE IF plausible_year(slice(s, 0, 4)) THEN append_julian(ymd_, s)
                  ELSE append(ymd_, PyStr(s), NoLabel)
             ELSE IF plausible_year(slice(s, 4, Len(s))) THEN append_dmy(ymd_, s)
                  ELSE IF plausible_year(slice(s, 0, 4)) THEN append_ymd(ymd_, s)
                  ELSE append(ymd_, PyStr(s), NoLabel)
        ELSE append(ymd_, PyStr(s), NoLabel)

\* what step 2 leaves behind: the result object and the returned position
\* or the exception
Filled(res, out) == [res |-> res, out |-> out]

\* parser._parsems
_parsems(value) ==
    IF count(value, ".") = 0
    THEN IF isdigit(value) THEN Return(<<int_of_digits(value), 0>>)
         ELSE Raise("ValueError")
    ELSE IF count(value, ".") > 1 \/ ~isdigit(whole_digits(value))
            \/ ~(frac_digits(value) = <<>> \/ isdigit(frac_digits(value)))
    THEN Raise("ValueError")
    ELSE Return(<<int_of_digits(whole_digits(value)), float_micro(value)>>)

\* res.second = int(tokens[i + 4]) of HH:MM:SS (1220-1223); r is the result
\* object with hour and minute set, the returned position is i + 2 or i + 4
clock_seconds(tokens, i, r) ==
    IF i + 3 < Len(tokens) /\ tokens[i + 4] = <<":">>
    THEN IF i + 4 >= Len(tokens) THEN Filled(r, Raise("IndexError"))
         ELSE IF ~isdigit(tokens[i + 5]) THEN Filled(r, Raise("ValueError"))
         ELSE Filled([r EXCEPT !.second = Some(int_of_digits(tokens[i + 5]))],
                    Return(i + 4))
    ELSE Filled(r, Return(i + 2))

\* HH:MM or MM:SS when tokens[i + 2] is no hms name (1207-1223): hms_idx is
\* `info.hms(tokens[i + 2]) or 0`
clock_colon(tokens, i, res) ==
    LET s == tokens[i + 1]
        t == tokens[i + 3]
        hms_idx == IF hms(t) = None THEN 0 ELSE Val(hms(t))
        first == IF hms_idx = 2 THEN "minute" ELSE "hour"
        second == IF hms_idx = 2 THEN "second" ELSE "minute"
        r1 == [res EXCEPT ![first] = Some(int_float(s))]
    IN  IF ~isdigit(t) THEN Filled(r1, Raise("ValueError"))
        ELSE clock_seconds(tokens, i, [r1 EXCEPT ![second] = Some(int_of_digits(t))])

\* HH:MM[:SS[.f]] when tokens[i + 2] is an hms name (1227-1238)
clock_colon_named(tokens, i, res) ==
    LET s == tokens[i + 1]
        t == tokens[i + 3]
        r1 == [res EXCEPT !.hour = Some(int_float(s))]
        r2 == [r1 EXCEPT !.minute = Some(int_float(t)),
                         !.microsecond = Some(float_micro(t))]
    IN  IF ~is_float(t) THEN Filled(r1, Raise("ValueError"))
        ELSE IF i + 3 < Len(tokens) /\ tokens[i + 4] = <<":">> /\ i + 4 < Len(tokens)
        THEN IF ~is_float(tokens[i + 5]) THEN Filled(r2, Raise("ValueError"))
             ELSE Filled([r2 EXCEPT !.second = Some(int_float(tokens[i + 5])),
                                   !.microsecond = Some(float_micro(tokens[i + 5]))],
                        Return(i + 4))
        ELSE Filled(r2, Return(i + 2))

\* res.second, res.microsecond = self._parsems(value_repr) (1274); v is what
\* _parsems gave
clock_parsems(res, i, v) ==
    IF returned(v)
    THEN Filled([res EXCEPT !.second = Some(v.value[1]),
                            !.microsecond = Some(v.value[2])],
                Return(i))
    ELSE Filled(res, v)

\* step 2 of the handler, lines 1204-1288: the clock fields.  `x in info.hms`
\* and `info.ampm[x]` are applied to bound methods, which raises TypeError
numeric_clock(tokens, i, res, fuzzy) ==
    LET s == tokens[i + 1]
        n == Len(tokens)
    IN  IF i + 1 < n /\ tokens[i + 2] = <<":">> /\ i + 2 >= n
        THEN Filled(res, Raise("IndexError"))
        ELSE IF i + 1 < n /\ tokens[i + 2] = <<":">> /\ hms(tokens[i + 3]) = None
        THEN clock_colon(tokens, i, res)
        ELSE IF i + 1 < n /\ tokens[i + 2] = <<":">> /\ i + 2 < n
        THEN clock_colon_named(tokens, i, res)
        ELSE IF i + 1 < n
        THEN Filled(res, Raise("TypeError"))
        ELSE IF res.hour = None /\ float_lt(s, 24) /\ i + 1 < n /\ tokens[i + 2] # <<":">>
        THEN Filled([res EXCEPT !.hour = Some(int_float(s))], Raise("TypeError"))
        ELSE IF res.minute = None /\ res.hour # None /\ float_lt(s, 60)
        THEN Filled([res EXCEPT !.minute = Some(int_float(s))], Return(i))
        ELSE IF res.second = None /\ res.minute # None /\ float_lt(s, 60)
        THEN clock_parsems(res, i, _parsems(s))
        ELSE IF res.hour # None /\ ampm(s) # None
        THEN Filled(res, Raise("TypeError"))
        ELSE Filled(res, Return(i))

\* what a call of the handler leaves behind
Handled(ymd_, res, out) == [ymd |-> ymd_, res |-> res, out |-> out]

\* the handler from step 2 on: p is what step 1 left behind, c what step 2
\* leaves behind
numeric_done(ymd_, c) == Handled(ymd_, c.res, c.out)

numeric_steps(p, tokens, idx, res, fuzzy) ==
    IF ~returned(p.out) THEN Handled(p.self, res, p.out)
    ELSE numeric_done(p.self, numeric_clock(tokens, idx, res, fuzzy))

\* parser._parse_numeric_token(tokens, idx, info, ymd, res, fuzzy)
_parse_numeric_token(tokens, idx, ymd_, res, fuzzy) ==
    IF ~is_float(tokens[idx + 1]) THEN Handled(ymd_, res, Return(idx))
    ELSE numeric_steps(numeric_ymd(tokens, idx, ymd_), tokens, idx, res, fuzzy)

-----------------------------------------------------------------------------
(* The dispatch loop of parser._parse (lines 957-1111), run on a token list *)
(* l.  One pass of the loop is dispatch; what follows the loop is finish.    *)

\* str(n) for n >= 0
RECURSIVE str(_)
str(n) ==
    IF n < 10 THEN <<DigitChars[n + 1]>>
    ELSE str(n \div 10) \o <<DigitChars[(n % 10) + 1]>>

\* token.isalpha()
isalpha(token) == Len(token) > 0 /\ \A k \in 1..Len(token) : isword(token[k])

\* parser._could_be_tzname
_could_be_tzname(hour, tzname, tzoffset_, token) ==
    /\ hour # None
    /\ tzname = None
    /\ tzoffset_ = None
    /\ Len(token) <= 5
    /\ isalpha(token)

\* what one pass leaves behind: the token list (one branch rewrites an
\* entry), the position of the next pass, the accumulator, the result
\* object, the skipped positions, and None or the exception raised
Step(l, i, ymd_, res, skipped_idxs, out) ==
    [l |-> l, i |-> i, ymd |-> ymd_, res |-> res,
     skipped_idxs |-> skipped_idxs, out |-> out]

\* a numeric token (973-975); h is what the handler left behind
numeric_step(h, l, i, skipped_idxs) ==
    IF returned(h.out)
    THEN Step(l, h.out.value + 1, h.ymd, h.res, skipped_idxs, Return(None))
    ELSE Step(l, i, h.ymd, h.res, skipped_idxs, h.out)

dispatch_numeric(l, i, ymd_, res, skipped_idxs, fuzzy) ==
    numeric_step(_parse_numeric_token(l, i, ymd_, res, fuzzy), l, i, skipped_idxs)

\* Jan-01-99 (993-998); a3 is what ymd.append(l[i + 4]) left behind
month_sep_second(a3, l, i, res, skipped_idxs) ==
    IF ~returned(a3.out) THEN Step(l, i, a3.self, res, skipped_idxs, a3.out)
    ELSE Step(l, i + 5, a3.self, res, skipped_idxs, Return(None))

\* Jan-01[-99] (991-998); a2 is what ymd.append(l[i + 2]) left behind
month_sep_first(a2, l, i, res, skipped_idxs) ==
    IF ~returned(a2.out) THEN Step(l, i, a2.self, res, skipped_idxs, a2.out)
    ELSE IF i + 3 < Len(l) /\ l[i + 4] = l[i + 2]
    THEN IF i + 4 >= Len(l)
         THEN Step(l, i, a2.self, res, skipped_idxs, Raise("IndexError"))
         ELSE month_sep_second(append(a2.self, PyStr(l[i + 5]), NoLabel),
                               l, i, res, skipped_idxs)
    ELSE Step(l, i + 3, a2.self, res, skipped_idxs, Return(None))

\* Jan-01[-99] (989-998); y1 is the accumulator after the month was appended
month_sep(l, i, y1, res, skipped_idxs) ==
    IF i + 2 >= Len(l) THEN Step(l, i, y1, res, skipped_idxs, Raise("IndexError"))
    ELSE month_sep_first(append(y1, PyStr(l[i + 3]), NoLabel), l, i, res, skipped_idxs)

\* Jan of 01 (1014-1017); a2 is what ymd.append(year, 'Y') left behind
month_of_year(a2, l, i, res, skipped_idxs) ==
    IF ~returned(a2.out) THEN Step(l, i, a2.self, res, skipped_idxs, a2.out)
    ELSE Step(l, i + 5, a2.self, res, skipped_idxs, Return(None))

\* Jan of 01 (1002-1017)
month_of(self, l, i, y1, res, skipped_idxs) ==
    IF isdigit(l[i + 5])
    THEN month_of_year(
             append(y1, PyStr(str(convertyear(self, int_of_digits(l[i + 5]), FALSE).value)),
                    "Y"),
             l, i, res, skipped_idxs)
    ELSE Step(l, i + 5, y1, res, skipped_idxs, Return(None))

\* a month name (987-1017); a1 is what ymd.append(info.month(l[i]), 'M') left
month_next(self, a1, l, i, res, skipped_idxs) ==
    IF ~returned(a1.out) THEN Step(l, i, a1.self, res, skipped_idxs, a1.out)
    ELSE IF i + 1 < Len(l) /\ l[i + 2] \in {<<"-">>, <<"/">>}
    THEN month_sep(l, i, a1.self, res, skipped_idxs)
    ELSE IF i + 1 < Len(l) /\ i + 4 < Len(l)
            /\ l[i + 2] = l[i + 4] /\ l[i + 4] = <<" ">> /\ pertain(l[i + 3])
    THEN month_of(self, l, i, a1.self, res, skipped_idxs)
    ELSE Step(l, i + 1, a1.self, res, skipped_idxs, Return(None))

\* a month name (984-1017)
dispatch_month(self, l, i, ymd_, res, skipped_idxs) ==
    month_next(self, append(ymd_, PyInt(Val(month(l[i + 1]))), "M"),
               l, i, res, skipped_idxs)

\* an AM/PM marker (1020-1031)
dispatch_ampm(l, i, ymd_, res, skipped_idxs, fuzzy) ==
    LET val_is_ampm == _ampm_valid(res.hour, ampm(l[i + 1]), fuzzy)
    IN  IF ~returned(val_is_ampm) THEN Step(l, i, ymd_, res, skipped_idxs, val_is_ampm)
        ELSE IF val_is_ampm.value
        THEN Step(l, i + 1, ymd_, [res EXCEPT !.ampm = ampm(l[i + 1])],
                  skipped_idxs, Return(None))
        ELSE IF fuzzy
        THEN Step(l, i + 1, ymd_, res, Append(skipped_idxs, i), Return(None))
        ELSE Step(l, i + 1, ymd_, res, skipped_idxs, Return(None))

\* a timezone name (1034-1051)
dispatch_tzname(self, l, i, ymd_, res, skipped_idxs) ==
    LET len_l == Len(l)
        r1 == [res EXCEPT !.tzname = Some(l[i + 1]),
                          !.tzoffset = tzoffset(self, l[i + 1])]
        r2 == [r1 EXCEPT !.tzoffset = None]
        r3 == IF utczone(Val(r2.tzname)) THEN [r2 EXCEPT !.tzname = None] ELSE r2
    IN  IF i + 1 < len_l /\ l[i + 2] \in {<<"+">>, <<"-">>}
        THEN IF i + 2 >= len_l
             THEN Step(l, i, ymd_, r1, skipped_idxs, Raise("IndexError"))
             ELSE Step([l EXCEPT ![i + 2] = l[i + 2] \o l[i + 3]], i + 3, ymd_, r3,
                       skipped_idxs, Return(None))
        ELSE Step(l, i + 1, ymd_, r1, skipped_idxs, Return(None))

\* the tail of the numbered-timezone branch (1075-1085): j is the position
\* after the `i += 2` of the HH:MM form, if it was taken
tz_brackets(l, j, ymd_, res, skipped_idxs, offset) ==
    LET r1 == [res EXCEPT !.tzoffset = Some(offset)]
    IN  IF j + 5 < Len(l) /\ jump(l[j + 3]) /\ l[j + 4] = <<"(">> /\ l[j + 6] = <<")">>
        THEN Step(l, j + 7, ymd_, [r1 EXCEPT !.tzname = Some(l[j + 5])],
                  skipped_idxs, Return(None))
        ELSE Step(l, j + 3, ymd_, r1, skipped_idxs, Return(None))

\* a numbered timezone (1054-1085)
dispatch_tzoffset(l, i, ymd_, res, skipped_idxs) ==
    LET len_l == Len(l)
        signal == IF l[i + 1] = <<"+">> THEN 1 ELSE -1
        t == l[i + 2]
        len_li == Len(t)
        failed(e) == Step(l, i, ymd_, res, skipped_idxs, Raise(e))
    IN  IF i + 1 >= len_l THEN failed("IndexError")
        ELSE IF len_li = 4
        THEN IF ~isdigit(slice(t, 0, 2)) \/ ~isdigit(slice(t, 2, 4))
             THEN failed("ValueError")
             ELSE tz_brackets(l, i, ymd_, res, skipped_idxs,
                              signal * (int_of_digits(slice(t, 0, 2)) * 3600
                                        + int_of_digits(slice(t, 2, 4)) * 60))
        ELSE IF i + 2 < len_l /\ l[i + 3] = <<":">>
        THEN IF ~isdigit(t) THEN failed("ValueError")
             ELSE IF i + 3 >= len_l THEN failed("IndexError")
             ELSE IF ~isdigit(l[i + 4]) THEN failed("ValueError")
             ELSE tz_brackets(l, i + 2, ymd_, res, skipped_idxs,
                              signal * (int_of_digits(t) * 3600
                                        + int_of_digits(l[i + 4]) * 60))
        ELSE IF len_li <= 2
        THEN IF ~isdigit(t) THEN failed("ValueError")
             ELSE tz_brackets(l, i, ymd_, res, skipped_idxs,
                              signal * (int_of_digits(t) * 3600))
        ELSE failed("ValueError")

\* one pass of the while loop (964-1094) at position i
dispatch(self, l, i, ymd_, res, skipped_idxs, fuzzy) ==
    LET token == l[i + 1]
    IN  IF is_float(token)
        THEN dispatch_numeric(l, i, ymd_, res, skipped_idxs, fuzzy)
        ELSE IF weekday(token) # None
        THEN Step(l, i + 1, ymd_, [res EXCEPT !.weekday = weekday(token)],
                  skipped_idxs, Return(None))
        ELSE IF month(token) # None
        THEN dispatch_month(self, l, i, ymd_, res, skipped_idxs)
        ELSE IF ampm(token) # None
        THEN dispatch_ampm(l, i, ymd_, res, skipped_idxs, fuzzy)
        ELSE IF _could_be_tzname(res.hour, res.tzname, res.tzoffset, token)
        THEN dispatch_tzname(self, l, i, ymd_, res, skipped_idxs)
        ELSE IF res.hour # None /\ token \in {<<"+">>, <<"-">>}
        THEN dispatch_tzoffset(l, i, ymd_, res, skipped_idxs)
        ELSE IF ~(jump(token) \/ fuzzy)
        THEN Step(l, i, ymd_, res, skipped_idxs, Raise("ValueError"))
        ELSE IF fuzzy
        THEN Step(l, i + 1, ymd_, res, Append(skipped_idxs, i), Return(None))
        ELSE Step(l, i + 1, ymd_, res, skipped_idxs, Return(None))

\* ''.join(tokens[i_start:i_end + 1])
RECURSIVE _combine_range(_, _, _)
_combine_range(tokens, i_start, i_end) ==
    IF i_start > i_end THEN <<>>
    ELSE tokens[i_start + 1] \o _combine_range(tokens, i_start + 1, i_end)

\* the ranges of consecutive positions (1459-1468); k is the loop's i
RECURSIVE idx_ranges(_, _, _)
idx_ranges(skipped_idxs, k, range_start) ==
    IF k >= Len(skipped_idxs)
    THEN <<<<range_start, skipped_idxs[Len(skipped_idxs)]>>>>
    ELSE IF skipped_idxs[k] + 1 # skipped_idxs[k + 1]
    THEN <<<<range_start, skipped_idxs[k]>>>>
         \o idx_ranges(skipped_idxs, k + 1, skipped_idxs[k + 1])
    ELSE idx_ranges(skipped_idxs, k + 1, range_start)

\* [_combine_range(i_start, i_end) for i_start, i_end in idx_ranges]
combine_ranges(tokens, ranges) ==
    [k \in 1..Len(ranges) |-> _combine_range(tokens, ranges[k][1], ranges[k][2])]

\* parser._recombine_skipped; the positions come in increasing order
_recombine_skipped(tokens, skipped_idxs) ==
    IF Len(skipped_idxs) = 0 THEN <<>>
    ELSE IF Len(skipped_idxs) = 1 THEN <<tokens[skipped_idxs[1] + 1]>>
    ELSE combine_ranges(tokens, idx_ranges(skipped_idxs, 1, skipped_idxs[1]))

\* res.century_specified, res.year, res.month, res.day = ... (1099-1102)
resolved_into(res, flag, t) ==
    [with_century(res, flag) EXCEPT !.year = t[1], !.month = t[2], !.day = t[3]]

\* the return (1104-1111); v is what validate left behind
finish_validated(v, l, skipped_idxs, fuzzy_with_tokens) ==
    IF ~returned(v.out) THEN v.out
    ELSE IF fuzzy_with_tokens
    THEN Return(<<v.res, Some(_recombine_skipped(l, skipped_idxs))>>)
    ELSE Return(<<v.res, None>>)

\* lines 1099-1111; r is what resolve_ymd gave
finish_resolved(self, r, l, ymd_, res, skipped_idxs, fuzzy_with_tokens) ==
    IF ~returned(r) THEN r
    ELSE finish_validated(
             validate(self, resolved_into(res, ymd_.century_specified, r.value)),
             l, skipped_idxs, fuzzy_with_tokens)

\* what follows the loop (1096-1111): resolve the accumulator, copy the three
\* fields and the century flag into the result, validate, return
finish(self, l, ymd_, res, skipped_idxs, yearfirst, dayfirst, fuzzy_with_tokens) ==
    finish_resolved(self, resolve_ymd(ymd_, yearfirst, dayfirst),
                    l, ymd_, res, skipped_idxs, fuzzy_with_tokens)

-----------------------------------------------------------------------------
(* State machine: one action per operation.  The operations of parser and  *)
(* parserinfo keep no state between calls, so a behaviour makes one call on *)
(* the built objects; an accumulator and a tokenizer are called repeatedly. *)

NoCall == [op |-> "none"]

NoOutcome == [kind |-> "none", value |-> None, exc |-> "-"]

\* the token lists the loop is run on: what a text such as "10:20:30",
\* "10:00 GMT+3", "10:00-03:30" or "Jan-01-99" is cut into, one token per
\* run of digits, run of letters or other character
LoopTokens ==
    {<<>>,
     <<<<"1", "0">>, <<":">>, <<"2", "0">>, <<":">>, <<"3", "0">>>>,
     <<<<"0", "1">>, <<"/">>, <<"0", "2">>, <<"/">>, <<"0", "3">>, <<" ">>, <<"1", "0">>, <<":">>, <<"2", "0">>, <<":">>, <<"3", "0">>>>,
     <<<<"1", "0">>, <<":">>, <<"0", "0">>, <<" ">>, <<"G", "M", "T">>, <<"+">>, <<"3">>>>,
     <<<<"1", "0">>, <<":">>, <<"0", "0">>, <<" ">>, <<"E", "S", "T">>, <<"-">>, <<"5">>>>,
     <<<<"1", "0">>, <<":">>, <<"0", "0">>, <<" ">>, <<"U", "T", "C">>>>,
     <<<<"1", "0">>, <<":">>, <<"0", "0">>, <<" ">>, <<"u", "t", "c">>>>,
     <<<<"1", "0">>, <<":">>, <<"0", "0">>, <<" ">>, <<"E", "S", "T">>>>,
     <<<<"1", "0">>, <<":">>, <<"0", "0">>, <<" ">>, <<"Z">>>>,
     <<<<"1", "0">>, <<":">>, <<"0", "0">>, <<" ">>, <<"G", "M", "T">>, <<"+">>>>,
     <<<<"1", "0">>, <<":">>, <<"0", "0">>, <<"+">>, <<"0", "3", "0", "0">>>>,
     <<<<"1", "0">>, <<":">>, <<"0", "0">>, <<"-">>, <<"0", "3">>, <<":">>, <<"3", "0">>>>,
     <<<<"1", "0">>, <<":">>, <<"0", "0">>, <<"+">>, <<"3">>>>,
     <<<<"1", "0">>, <<":">>, <<"0", "0">>, <<"-">>, <<"0", "3">>>>,
     <<<<"1", "0">>, <<":">>, <<"0", "0">>, <<"+">>, <<"0", "3", "0">>>>,
     <<<<"1", "0">>, <<":">>, <<"0", "0">>, <<"+">>, <<"0", "3", "0">>, <<":">>, <<"0", "0">>>>,
     <<<<"1", "0">>, <<":">>, <<"0", "0">>, <<"-">>, <<"1", "2", "3", "4", "5">>>>,
     <<<<"1", "0">>, <<":">>, <<"0", "0">>, <<"+">>>>,
     <<<<"1", "0">>, <<":">>, <<"0", "0">>, <<"-">>, <<"0", "3">>, <<":">>>>,
     <<<<"1", "0">>, <<":">>, <<"0", "0">>, <<"-">>, <<"0", "3", "0", "0">>, <<" ">>, <<"(">>, <<"B", "R", "S", "T">>, <<")">>>>,
     <<<<"1", "0">>, <<":">>, <<"0", "0">>, <<" ">>, <<"p", "m">>>>,
     <<<<"1", "3">>, <<":">>, <<"0", "0">>, <<" ">>, <<"p", "m">>>>,
     <<<<"p", "m">>>>,
     <<<<"1", "0">>, <<":">>>>,
     <<<<"1", "0">>, <<":">>, <<"2", "0">>, <<":">>>>,
     <<<<"J", "a", "n">>, <<"-">>>>,
     <<<<"J", "a", "n">>, <<"/">>, <<"0", "1">>, <<"/">>>>,
     <<<<"J", "a", "n">>, <<"-">>, <<"0", "1">>, <<"-">>, <<"9", "9">>>>,
     <<<<"J", "a", "n">>, <<"-">>, <<"0", "1">>>>,
     <<<<"J", "a", "n">>, <<" ">>, <<"o", "f">>, <<" ">>, <<"9", "9">>>>,
     <<<<"J", "a", "n">>, <<" ">>, <<"F", "e", "b">>>>,
     <<<<"F", "r", "i", "d", "a", "y">>>>,
     <<<<"F", "r", "i", "d", "a", "y">>, <<" ">>, <<"J", "a", "n">>>>,
     <<<<"2", "0", "2", "3">>, <<"-">>, <<"0", "1">>, <<"-">>, <<"1", "5">>>>,
     <<<<"2", "0", "2", "3">>>>,
     <<<<"1", "9", "9", "7", "1", "4", "3">>>>,
     <<<<"f", "o", "o">>, <<" ">>, <<"b", "a", "r">>, <<" ">>, <<"1", "0">>>>,
     <<<<"a", "t">>, <<" ">>, <<"1", "0">>, <<":">>, <<"3", "0">>>>}

\* the token lists _parse_numeric_token is called on
NumericTokens ==
    {<<<<"1", "0">>, <<":">>, <<"2", "0">>, <<":">>, <<"3", "0">>>>,
     <<<<"1", "0">>, <<":">>, <<"2", "0">>, <<":">>>>,
     <<<<"1", "0">>, <<":">>, <<"m">>>>,
     <<<<"1", "0">>, <<"h">>>>,
     <<<<"4", "5">>>>,
     <<<<"2", "0", "2", "3">>>>,
     <<<<"1", "9", "9", "7", "1", "4", "3">>>>,
     <<<<"1", "9", "9", "7", "1", "4", "3">>, <<".">>, <<".">>>>,
     <<<<"2", "0", "2", "4", "0", "6", "0">>, <<".">>, <<".">>>>,
     <<<<"2", "0", "2", "3", "0", "1", "1", "5">>>>,
     <<<<"1", "2", ".", "5">>>>}

\* _parse up to the loop (943-963): the frame of one run
Frame(l, dayfirst, yearfirst, fuzzy, fuzzy_with_tokens) ==
    [pc |-> "loop", l |-> l, i |-> 0, res |-> _result, skipped_idxs |-> <<>>,
     dayfirst |-> dayfirst, yearfirst |-> yearfirst,
     fuzzy |-> fuzzy \/ fuzzy_with_tokens, fuzzy_with_tokens |-> fuzzy_with_tokens]

\* no run of the loop: only the result object a direct call of the numeric
\* handler is given
NoRun ==
    [pc |-> "none", l |-> <<>>, i |-> 0, res |-> _result, skipped_idxs |-> <<>>,
     dayfirst |-> FALSE, yearfirst |-> FALSE,
     fuzzy |-> FALSE, fuzzy_with_tokens |-> FALSE]

\* the module-level default_parser = parser(), built with parserinfo()
Init ==
    /\ info \in {parserinfo(y, FALSE, FALSE) : y \in {2025, 2026}}
    /\ call = NoCall
    /\ outcome = NoOutcome
    /\ ymd = _ymd
    /\ lex = _timelex(<<>>)
    /\ run = NoRun

\* the class attribute TZOFFSET of parserinfo and of a subclass that names a zone
TzoffsetTables == {{}, {<<<<"E", "S", "T">>, -18000>>}}

\* a parserinfo, or an instance of the subclass, built in any year of the
\* reference range
InitInfo ==
    /\ info \in {[parserinfo(y, FALSE, FALSE) EXCEPT !.TZOFFSET = t] :
                    y \in 1970..(1970 + RefYearSpan), t \in TzoffsetTables}
    /\ call = NoCall
    /\ outcome = NoOutcome
    /\ ymd = _ymd
    /\ lex = _timelex(<<>>)
    /\ run = NoRun

\* a fresh accumulator, as _parse builds one per call
InitYmd ==
    /\ info = parserinfo(2025, FALSE, FALSE)
    /\ call = NoCall
    /\ outcome = NoOutcome
    /\ ymd = _ymd
    /\ lex = _timelex(<<>>)
    /\ run = NoRun

\* _parse with the token list l in hand (lines 957-963): a fresh accumulator
\* and result object, position 0
InitLoop ==
    /\ info \in {[parserinfo(2025, FALSE, FALSE) EXCEPT !.TZOFFSET = t] :
                    t \in TzoffsetTables}
    /\ call = NoCall
    /\ outcome = NoOutcome
    /\ ymd = _ymd
    /\ lex = _timelex(<<>>)
    /\ run \in {Frame(l, dayfirst, yearfirst, f[1], f[2]) :
                   l \in LoopTokens, dayfirst \in BOOLEAN, yearfirst \in BOOLEAN,
                   f \in {<<FALSE, FALSE>>, <<TRUE, FALSE>>, <<TRUE, TRUE>>}}

\* a tokenizer built on a text, as _timelex(instream) builds it
InitLex ==
    /\ info = parserinfo(2025, FALSE, FALSE)
    /\ call = NoCall
    /\ outcome = NoOutcome
    /\ ymd = _ymd
    /\ lex \in {_timelex(text) : text \in LexTexts}
    /\ run = NoRun

Parse(timestr, default, ignoretz, dayfirst, yearfirst, fuzzy) ==
    /\ call' = [op |-> "parse", timestr |-> timestr, default |-> default,
                ignoretz |-> ignoretz, tzinfos |-> NoTzinfos,
                dayfirst |-> dayfirst, yearfirst |-> yearfirst, fuzzy |-> fuzzy]
    /\ outcome' = parse(timestr, default, ignoretz, NoTzinfos,
                        dayfirst, yearfirst, fuzzy, HostEnv)
    /\ UNCHANGED <<info, ymd, lex, run>>

AmpmValid(hour, ampm_, fuzzy) ==
    /\ call' = [op |-> "_ampm_valid", hour |-> hour, ampm |-> ampm_, fuzzy |-> fuzzy]
    /\ outcome' = _ampm_valid(hour, ampm_, fuzzy)
    /\ UNCHANGED <<info, ymd, lex, run>>

BuildNaive(res, default) ==
    /\ call' = [op |-> "_build_naive_datetime", res |-> res, default |-> default]
    /\ outcome' = _build_naive_datetime(res, default)
    /\ UNCHANGED <<info, ymd, lex, run>>

BuildAware(naive, res, tzinfos, env) ==
    /\ call' = [op |-> "_build_tzaware_datetime", naive |-> naive, res |-> res,
                tzinfos |-> tzinfos, env |-> env]
    /\ outcome' = _build_tzaware_datetime(naive, res, tzinfos, env)
    /\ UNCHANGED <<info, ymd, lex, run>>

ConvertYear(year, century_specified) ==
    /\ call' = [op |-> "convertyear", year |-> year,
                century_specified |-> century_specified]
    /\ outcome' = convertyear(info, year, century_specified)
    /\ UNCHANGED <<info, ymd, lex, run>>

\* info.tzoffset(name)
Tzoffset(name) ==
    /\ call' = [op |-> "tzoffset", name |-> name]
    /\ outcome' = Return(tzoffset(info, name))
    /\ UNCHANGED <<info, ymd, lex, run>>

\* parser._parse_numeric_token(tokens, idx, info, ymd, res, fuzzy), called on
\* the accumulator and the result object as earlier calls left them; h is
\* what the call leaves behind
NumericTokenEffect(h) ==
    /\ outcome' = h.out
    /\ ymd' = h.ymd
    /\ run' = [run EXCEPT !.res = h.res]

NumericToken(tokens, idx, fuzzy) ==
    /\ call' = [op |-> "_parse_numeric_token", tokens |-> tokens, idx |-> idx,
                ymd |-> ymd, res |-> run.res, fuzzy |-> fuzzy]
    /\ NumericTokenEffect(_parse_numeric_token(tokens, idx, ymd, run.res, fuzzy))
    /\ UNCHANGED <<info, lex>>

\* one pass of the while loop of _parse; an exception ends the run.  s is
\* what the pass leaves behind
LoopDispatchEffect(s) ==
    /\ outcome' = s.out
    /\ ymd' = s.ymd
    /\ run' = [run EXCEPT !.pc = IF returned(s.out) THEN "loop" ELSE "raised",
                          !.l = s.l, !.i = s.i, !.res = s.res,
                          !.skipped_idxs = s.skipped_idxs]

LoopDispatch ==
    /\ run.pc = "loop"
    /\ run.i < Len(run.l)
    /\ call' = [op |-> "dispatch", frame |-> run, ymd |-> ymd]
    /\ LoopDispatchEffect(dispatch(info, run.l, run.i, ymd, run.res,
                                   run.skipped_idxs, run.fuzzy))
    /\ UNCHANGED <<info, lex>>

\* the loop is left at the end of the token list: resolve, validate, return
LoopFinish ==
    /\ run.pc = "loop"
    /\ run.i >= Len(run.l)
    /\ call' = [op |-> "finish", frame |-> run, ymd |-> ymd]
    /\ outcome' = finish(info, run.l, ymd, run.res, run.skipped_idxs,
                         run.yearfirst, run.dayfirst, run.fuzzy_with_tokens)
    /\ run' = [run EXCEPT !.pc = IF returned(outcome') THEN "returned" ELSE "raised"]
    /\ UNCHANGED <<info, ymd, lex>>

\* ymd.append(val, label)
YmdAppend(val, label) ==
    /\ call' = [op |-> "append", self |-> ymd, val |-> val, label |-> label]
    /\ outcome' = append(ymd, val, label).out
    /\ ymd' = append(ymd, val, label).self
    /\ UNCHANGED <<info, lex, run>>

\* ymd.resolve_ymd(yearfirst, dayfirst)
YmdResolve(yearfirst, dayfirst) ==
    /\ call' = [op |-> "resolve_ymd", self |-> ymd,
                yearfirst |-> yearfirst, dayfirst |-> dayfirst]
    /\ outcome' = resolve_ymd(ymd, yearfirst, dayfirst)
    /\ UNCHANGED <<info, ymd, lex, run>>

\* lex.get_token()
LexGetToken ==
    /\ call' = [op |-> "get_token", self |-> lex]
    /\ outcome' = get_token(lex).out
    /\ lex' = get_token(lex).self
    /\ UNCHANGED <<info, ymd, run>>

\* next(lex)
LexNext ==
    /\ call' = [op |-> "__next__", self |-> lex]
    /\ outcome' = __next__(lex).out
    /\ lex' = __next__(lex).self
    /\ UNCHANGED <<info, ymd, run>>

\* list(lex)
LexList ==
    /\ call' = [op |-> "list", self |-> lex]
    /\ outcome' = list_items(lex).out
    /\ lex' = list_items(lex).self
    /\ UNCHANGED <<info, ymd, run>>

\* lex.split(s)
LexSplit(s) ==
    /\ call' = [op |-> "split", self |-> lex, s |-> s]
    /\ outcome' = split(lex, s).out
    /\ lex' = split(lex, s).self
    /\ UNCHANGED <<info, ymd, run>>

ParseCalls ==
    /\ call = NoCall
    /\ \E timestr \in TimeStrs, default \in Defaults, ignoretz \in BOOLEAN,
          dayfirst \in BOOLEAN, yearfirst \in BOOLEAN, fuzzy \in BOOLEAN :
            Parse(timestr, default, ignoretz, dayfirst, yearfirst, fuzzy)

AmpmValidCalls ==
    /\ call = NoCall
    /\ \E hour \in {None} \cup {Some(h) : h \in 0..MaxAmpmHour},
          ampm_ \in {0, 1}, fuzzy \in BOOLEAN :
            AmpmValid(hour, ampm_, fuzzy)

BuildNaiveCalls ==
    /\ call = NoCall
    /\ \E res \in Results, default \in Defaults : BuildNaive(res, default)

BuildAwareCalls ==
    /\ call = NoCall
    /\ \E naive \in Naives, res \in ZoneResults, tzinfos \in Tzinfos, env \in TzEnvs :
        BuildAware(naive, res, tzinfos, env)

ConvertYearCalls ==
    /\ call = NoCall
    /\ \E year \in 0..MaxYearArg, century_specified \in BOOLEAN :
        ConvertYear(year, century_specified)

\* the values and labels _parse and _parse_numeric_token append
YmdVals ==
    {PyInt(n) : n \in {5, 15, 99, 2023}}
    \cup {PyStr(t) : t \in {<<"0", "5">>, <<"2", "0", "2", "3">>, <<"1", "a">>}}

YmdLabels == {NoLabel, "Y", "M", "D"}

YmdAppendCalls ==
    /\ Len(ymd.vals) < MaxYmdLen
    /\ \E val \in YmdVals, label \in YmdLabels : YmdAppend(val, label)

YmdResolveCalls ==
    \E yearfirst \in BOOLEAN, dayfirst \in BOOLEAN : YmdResolve(yearfirst, dayfirst)

\* the names tzoffset is asked about
TzoffsetNames ==
    {<<"U", "T", "C">>, <<"u", "t", "c">>, <<"G", "M", "T">>, <<"g", "m", "t">>,
     <<"Z">>, <<"z">>, <<"E", "S", "T">>, <<"e", "s", "t">>, <<"B", "R", "S", "T">>}

TzoffsetCalls ==
    /\ call = NoCall
    /\ \E name \in TzoffsetNames : Tzoffset(name)

NumericTokenCalls ==
    /\ Len(ymd.vals) < MaxYmdLen
    /\ \E tokens \in NumericTokens, fuzzy \in BOOLEAN :
          \E idx \in 0..Min(1, Len(tokens) - 1) : NumericToken(tokens, idx, fuzzy)

Next == ParseCalls \/ AmpmValidCalls \/ BuildNaiveCalls \/ BuildAwareCalls

NextInfo == ConvertYearCalls \/ TzoffsetCalls

NextNum == NumericTokenCalls

NextLoop == LoopDispatch \/ LoopFinish

NextYmd == YmdAppendCalls \/ YmdResolveCalls

\* the texts handed to split on a tokenizer already in use
SplitTexts ==
    {<<>>,
     <<"t", "e", "s", "t", " ", "w", "o", "r", "d">>,
     IsoDate(2023, 1, 1) \o <<" ">> \o Clock(12, 30, 45),
     <<"S", "e", "p", ".", "2", "0", ".", "2", "0", "0", "9">>,
     <<"4", "5", ",", "1", "2", "3", "4", "5", "6">>,
     <<"1", "2", ".", "3", "4">>}

LexSplitCalls == \E s \in SplitTexts : LexSplit(s)

NextLex == LexGetToken \/ LexNext \/ LexList \/ LexSplitCalls

\* the parser object: parse and the methods it is built from
Spec == Init /\ [][Next]_vars

\* the parserinfo object
SpecInfo == InitInfo /\ [][NextInfo]_vars

\* one _ymd accumulator
SpecYmd == InitYmd /\ [][NextYmd]_vars

\* one _timelex tokenizer
SpecLex == InitLex /\ [][NextLex]_vars

\* the numeric-token handler, called directly
SpecNum == InitYmd /\ [][NextNum]_vars

\* the dispatch loop of _parse on a token list
SpecLoop == InitLoop /\ [][NextLoop]_vars

-----------------------------------------------------------------------------
(* Reading a text back: the digit groups the claims speak of *)

IsDigitText(t) == \A i \in 1..Len(t) : \E n \in 1..10 : DigitChars[n] = t[i]

DigitOf(c) == (CHOOSE n \in 1..10 : DigitChars[n] = c) - 1

RECURSIVE NumberOf(_)
NumberOf(t) ==
    IF Len(t) = 0 THEN 0
    ELSE 10 * NumberOf(SubSeq(t, 1, Len(t) - 1)) + DigitOf(t[Len(t)])

RECURSIVE PadRight(_, _)
PadRight(t, w) == IF Len(t) >= w THEN t ELSE PadRight(t \o <<"0">>, w)

IsIsoDateText(t) == Len(t) = 10 /\ t[5] = "-" /\ t[8] = "-"

IsSlashDateText(t) == Len(t) = 10 /\ t[3] = "/" /\ t[6] = "/"

IsClock12Text(t) == Len(t) = 8 /\ t[3] = ":" /\ t[6] = " " /\ t[8] = "M"

IsHourMarkerText(t) == Len(t) \in {3, 4} /\ t[Len(t)] = "m"

IsClockFracText(t) == Len(t) > 9 /\ t[3] = ":" /\ t[6] = ":" /\ t[9] = "."

IsIsoDateTimeText(t) == Len(t) = 19 /\ t[11] = "T"

\* the hour of the 12-hour clock: h with marker AM or PM
Hour12(h, marker) ==
    IF marker \in {<<"A", "M">>, <<"a", "m">>}
    THEN (IF h = 12 THEN 0 ELSE h)
    ELSE (IF h < 12 THEN h + 12 ELSE h)

ParseCalled == call.op = "parse"

-----------------------------------------------------------------------------
(* Claims *)

\* C1: for every valid date written YYYY-MM-DD with a four-digit year, parse
\* returns year, month and day equal to the three digit groups, for every
\* combination of dayfirst and yearfirst.
C1_IsoDateFieldsAreLiteral ==
    (ParseCalled /\ IsIsoDateText(call.timestr)) =>
        /\ returned(outcome)
        /\ outcome.value.year = NumberOf(SubSeq(call.timestr, 1, 4))
        /\ outcome.value.month = NumberOf(SubSeq(call.timestr, 6, 7))
        /\ outcome.value.day = NumberOf(SubSeq(call.timestr, 9, 10))

C3_AmPmHourOf12HourClock ==
    /\ (ParseCalled /\ IsClock12Text(call.timestr)) =>
          /\ returned(outcome)
          /\ outcome.value.hour = Hour12(NumberOf(SubSeq(call.timestr, 1, 2)),
                                         SubSeq(call.timestr, 7, 8))
    /\ (ParseCalled /\ IsHourMarkerText(call.timestr)) =>
          /\ returned(outcome)
          /\ outcome.value.hour =
                Hour12(NumberOf(SubSeq(call.timestr, 1, Len(call.timestr) - 2)),
                       SubSeq(call.timestr, Len(call.timestr) - 1, Len(call.timestr)))

\* C4: in strict (non-fuzzy) mode an AM/PM marker is accepted only when an hour
\* has already been parsed and that hour is in 0..12; with no hour parsed yet
\* or with an hour outside 0..12 a format error (ValueError) is raised.
C4_StrictAmPmNeedsHour ==
    (call.op = "_ampm_valid" /\ ~call.fuzzy) =>
        IF call.hour # None /\ Val(call.hour) \in 0..12
        THEN outcome = Return(TRUE)
        ELSE raised(outcome, "ValueError")

\* C5: for a date with a four-digit year and two other numeric components of
\* which exactly one is in 13..31 and the other in 1..12, the component in
\* 13..31 is returned as the day and the other as the month, whatever their
\* order and whatever dayfirst is.
C5_LargeComponentIsDay ==
    (ParseCalled /\ IsSlashDateText(call.timestr)) =>
        LET a == NumberOf(SubSeq(call.timestr, 1, 2))
            b == NumberOf(SubSeq(call.timestr, 4, 5))
        IN  /\ (a \in 13..31 /\ b \in 1..12) =>
                  /\ returned(outcome)
                  /\ outcome.value.day = a
                  /\ outcome.value.month = b
            /\ (b \in 13..31 /\ a \in 1..12) =>
                  /\ returned(outcome)
                  /\ outcome.value.day = b
                  /\ outcome.value.month = a

\* C6: for a clock time HH:MM:SS.f with 1 to 6 fractional digits, the result
\* has second = SS and microsecond equal to the fractional digits right-padded
\* with zeros to six digits.
C6_FractionIsMicroseconds ==
    (ParseCalled /\ IsClockFracText(call.timestr)) =>
        /\ returned(outcome)
        /\ outcome.value.second = NumberOf(SubSeq(call.timestr, 7, 8))
        /\ outcome.value.microsecond =
              NumberOf(PadRight(SubSeq(call.timestr, 10, Len(call.timestr)), 6))

\* C7: for a token that matches no category of the dispatch loop, strict mode
\* raises a format error (ValueError); in fuzzy mode no error is raised for
\* it, so a text that also holds a date is parsed.
C7_UnknownTokenStrictFuzzy ==
    (ParseCalled /\ call.timestr \in UnknownTokenTexts) =>
        IF call.fuzzy
        THEN (Len(call.timestr) >= 10 /\ IsIsoDateText(SubSeq(call.timestr, 1, 10)))
                => returned(outcome)
        ELSE raised(outcome, "ValueError")

\* C8: for every timestamp T with explicit year, month, day, hour, minute and
\* second, parsing the ISO-8601 rendering of T succeeds and returns exactly T,
\* whatever the baseline timestamp.
C8_IsoRoundTrip ==
    (ParseCalled /\ IsIsoDateTimeText(call.timestr)) =>
        /\ returned(outcome)
        /\ isoformat(outcome.value) = call.timestr
        /\ outcome.value.microsecond = 0

\* what the overlay of a partial result on a baseline is to hold in field a
Overlaid(res, default, a) == IF res[a] # None THEN Val(res[a]) ELSE default[a]

\* the parsed fields other than the day are ones a timestamp can hold
OverlayInRange(res, default) ==
    /\ Overlaid(res, default, "year") \in 1..9999
    /\ Overlaid(res, default, "month") \in 1..12
    /\ Overlaid(res, default, "hour") \in 0..23
    /\ Overlaid(res, default, "minute") \in 0..59
    /\ Overlaid(res, default, "second") \in 0..59
    /\ Overlaid(res, default, "microsecond") \in 0..999999

\* C9 as stated, for the res and default of the call: every field for which
\* the result holds a value replaces the baseline's; with no day parsed the
\* returned day is the baseline day, or the last day of the resolved month
\* when the baseline day exceeds it
OverlayAndClamp(res, default) ==
    LET last == days_in_month(Overlaid(res, default, "year"),
                              Overlaid(res, default, "month"))
    IN  /\ (res.day = None /\ OverlayInRange(res, default)) => returned(outcome)
        /\ returned(outcome) =>
              /\ \A a \in DtAttrs \ {"day"} :
                    outcome.value[a] = Overlaid(res, default, a)
              /\ res.day # None => outcome.value.day = Val(res.day)
              /\ (res.day = None /\ default.day > last) => outcome.value.day = last
              /\ (res.day = None /\ default.day <= last) =>
                    outcome.value.day = default.day

\* C9 (original statement): build_naive replaces each baseline field for which
\* the result holds a non-null year/month/day/hour/minute/second/microsecond;
\* when no day was parsed and the baseline day exceeds the number of days of
\* the resolved year and month, the day of the returned timestamp is the last
\* day of that month, and when it does not exceed it the baseline day is kept.
C9_OverlayAndClampAlways ==
    call.op = "_build_naive_datetime" => OverlayAndClamp(call.res, call.default)

\* C9 (amended): the same, for a call in which no weekday roll-forward applies
\* (no weekday was parsed, or a day was parsed).
C9_OverlayAndClampNoWeekdayRoll ==
    (/\ call.op = "_build_naive_datetime"
     /\ (call.res.weekday = None \/ call.res.day # None))
        => OverlayAndClamp(call.res, call.default)

\* C9 witness: no day and no weekday parsed, February resolved against a
\* baseline on the 31st, and the last day of February returned
C9_Witness ==
    /\ call.op = "_build_naive_datetime"
    /\ call.res.day = None
    /\ call.res.weekday = None
    /\ call.res.month = Some(2)
    /\ call.default.day = 31
    /\ returned(outcome)
    /\ outcome.value.month = 2
    /\ outcome.value.day = days_in_month(outcome.value.year, 2)

\* C10: parsing 'February 30' with any baseline timestamp returns a timestamp
\* in February whose day is the last valid day of February of the resolved
\* year (28, or 29 in a leap year).
C10_February30Clamped ==
    (ParseCalled /\ call.timestr = February30) =>
        /\ returned(outcome)
        /\ outcome.value.month = 2
        /\ outcome.value.day = (IF isleap(outcome.value.year) THEN 29 ELSE 28)

C12_InvalidClockRaisesParserError ==
    (ParseCalled /\ call.timestr \in InvalidClocks) => raised(outcome, "ParserError")

\* the texts of the tokens an iteration yielded
TokenTexts(items) == [i \in 1..Len(items) |-> Val(items[i][2])]

\* list(lex) was called on a tokenizer that had read nothing yet
ListedFresh == call.op = "list" /\ call.self = _timelex(call.self.instream)

\* C13: iterating the tokenizer ends only when the source is exhausted: a
\* whitespace or punctuation character is yielded as a token and iteration
\* goes on with the characters after it.
C13_IterationEndsAtExhaustion ==
    call.op = "list" => (returned(outcome) /\ lex.instream = <<>>)

\* C14: a digit run, one '.', a digit run is yielded as the three tokens
\* [digits, '.', digits]; a letter run, '.', a letter run is yielded as one
\* combined alphabetic token.
C14_DotBetweenRuns ==
    ListedFresh =>
        /\ \A a \in DigitRuns, b \in DigitRuns :
             call.self.instream = a \o <<".">> \o b
             => TokenTexts(outcome.value) = <<a, <<".">>, b>>
        /\ \A a \in LetterRuns, b \in LetterRuns :
             call.self.instream = a \o <<".">> \o b
             => /\ TokenTexts(outcome.value) = <<a \o <<".">> \o b>>
                /\ outcome.value[1][1] = Some("a")

\* C15: digits (at least two), one ',', digits, with no '.', is emitted with
\* the ',' replaced by '.': '45,123456' is emitted as '45.123456'.
C15_CommaBecomesDot ==
    ListedFresh =>
        \A a \in DigitRuns, b \in DigitRuns :
            (Len(a) >= 2 /\ call.self.instream = a \o <<",">> \o b)
            => TokenTexts(outcome.value) = <<a \o <<".">> \o b>>

\* the caller's resolver recognizes the name: a table that holds it, or a
\* callback that gives a zone
Recognizes(tzinfos, tzname) ==
    \/ tzinfos.kind = "dict" /\ tzname # None /\ Val(tzname) \in tzinfos.names
    \/ tzinfos.kind = "callable" /\ tzinfos.value # None

\* C16: _build_tzaware_datetime picks the zone by the first rule that
\* applies: the resolver recognizes tzname -> its zone; tzname is a local
\* zone name -> the local zone; offset 0 -> UTC; offset nonzero -> the
\* fixed-offset zone of that name and offset; no name and no offset -> naive;
\* otherwise -> the named best-effort zone.  parse with ignoretz returns a
\* naive timestamp.
C16_ZoneByFirstRule ==
    /\ call.op = "_build_tzaware_datetime" =>
        /\ returned(outcome)
        /\ LET n == call.res.tzname
               o == call.res.tzoffset
               z == tzinfo_of(outcome.value)
           IN  IF Recognizes(call.tzinfos, n) THEN z = call.tzinfos.value
               ELSE IF n \notin {None, Some("")} /\ Val(n) \in call.env.tzname
               THEN z # None /\ Val(z).kind = "tzlocal"
               ELSE IF o = Some(0) THEN z = Some(tz_UTC)
               ELSE IF o # None THEN z = Some(tz_tzoffset(n, Val(o)))
               ELSE IF n \in {None, Some("")} THEN z = None
               ELSE z = Some(tz_tzstr(Val(n)))
    /\ (ParseCalled /\ call.ignoretz) =>
        (returned(outcome) /\ tzinfo_of(outcome.value) = None)

\* the day the overlay holds when no day was parsed: the baseline day, or the
\* last day of the resolved month when the baseline day exceeds it
OverlaidDay(res, default) ==
    Min(default.day,
        days_in_month(Overlaid(res, default, "year"), Overlaid(res, default, "month")))

\* days from the overlaid timestamp of a call without a parsed day to dt
DaysAfterOverlay(res, default, dt) ==
    toordinal(dt.year, dt.month, dt.day)
    - toordinal(Overlaid(res, default, "year"), Overlaid(res, default, "month"),
                OverlaidDay(res, default))

\* C17: when a weekday w was parsed and no day was parsed, build_naive returns
\* the overlaid timestamp moved forward by (w - its weekday) mod 7 days: the
\* result falls on weekday w, 0 to 6 days after the overlaid timestamp, with
\* the time of day unchanged; when a day was parsed the weekday causes no shift.
C17_WeekdayRollForward ==
    (call.op = "_build_naive_datetime" /\ call.res.weekday # None) =>
        LET res == call.res
            default == call.default
            w == Val(res.weekday)
            dt == outcome.value
        IN  /\ (res.day = None /\ OverlayInRange(res, default)) => returned(outcome)
            /\ (res.day = None /\ returned(outcome)) =>
                  /\ weekday_of(dt.year, dt.month, dt.day) = w
                  /\ DaysAfterOverlay(res, default, dt) \in 0..6
                  /\ DaysAfterOverlay(res, default, dt) =
                        (w - weekday_of(Overlaid(res, default, "year"),
                                        Overlaid(res, default, "month"),
                                        OverlaidDay(res, default))) % 7
                  /\ \A a \in {"hour", "minute", "second", "microsecond"} :
                        dt[a] = Overlaid(res, default, a)
            /\ (res.day # None /\ returned(outcome)) =>
                  \A a \in DtAttrs : dt[a] = Overlaid(res, default, a)

\* C17 witness: Friday parsed with February and no day against the baseline
\* 2023-01-31: the overlay is Tuesday 2023-02-28, the result Friday 2023-03-03
C17_Witness ==
    /\ call.op = "_build_naive_datetime"
    /\ call.res.weekday = Some(4)
    /\ call.res.day = None
    /\ call.res.month = Some(2)
    /\ call.res.year = None
    /\ call.default = datetime(2023, 1, 31, 5, 6, 7, 8)
    /\ returned(outcome)
    /\ outcome.value.year = 2023
    /\ outcome.value.month = 3
    /\ outcome.value.day = 3

\* resolve_ymd was called on an accumulator of n values with the labels tags
Resolved(n, tags) ==
    /\ call.op = "resolve_ymd"
    /\ Len(call.self.vals) = n
    /\ strids_of(call.self) = tags

\* the value at the position of label k, when the label has a position
Tagged(self, k) ==
    IF k = "y" THEN getitem(self, Val(self.ystridx))
    ELSE IF k = "m" THEN getitem(self, Val(self.mstridx))
    ELSE getitem(self, Val(self.dstridx))

\* the value of the one position of 0..n-1 that no label of tags points at
Untagged(self, n, tags) ==
    LET used == {IF k = "y" THEN Val(self.ystridx)
                 ELSE IF k = "m" THEN Val(self.mstridx)
                 ELSE Val(self.dstridx) : k \in tags}
    IN  getitem(self, CHOOSE i \in 0..(n - 1) : i \notin used)

\* C18: resolve on three values of which exactly two carry tags returns each
\* tagged value in the field of its tag and the untagged value in the
\* remaining field, for every pair of tags and every position.
C18_ThreeValuesTwoTags ==
    \A tags \in {{"y", "m"}, {"y", "d"}, {"m", "d"}} :
        Resolved(3, tags) =>
            /\ returned(outcome)
            /\ \A k \in {"y", "m", "d"} :
                 outcome.value[IF k = "y" THEN 1 ELSE IF k = "m" THEN 2 ELSE 3] =
                    Some(IF k \in tags THEN Tagged(call.self, k)
                         ELSE Untagged(call.self, 3, tags))

\* C19: resolve on exactly one value returns it as the year when it carries no
\* month or day evidence and as the month otherwise, with None in the other
\* two fields.
C19_SingleValue ==
    (call.op = "resolve_ymd" /\ Len(call.self.vals) = 1) =>
        /\ returned(outcome)
        /\ outcome.value =
              IF has_month(call.self) \/ has_day(call.self)
              THEN <<None, Some(getitem(call.self, 0)), None>>
              ELSE <<Some(getitem(call.self, 0)), None, None>>

\* C20: resolve on two values of which one is tagged Year or Month returns
\* the tagged value in the field of its tag and the other value as the day
\* when it is in 1..31, otherwise as the month (year known) or the year
\* (month known).
C20_TwoValuesOneTag ==
    /\ Resolved(2, {"y"}) =>
         LET other == Untagged(call.self, 2, {"y"}) IN
         /\ returned(outcome)
         /\ outcome.value =
               IF other \in 1..31
               THEN <<Some(Tagged(call.self, "y")), None, Some(other)>>
               ELSE <<Some(Tagged(call.self, "y")), Some(other), None>>
    /\ Resolved(2, {"m"}) =>
         LET other == Untagged(call.self, 2, {"m"}) IN
         /\ returned(outcome)
         /\ outcome.value =
               IF other \in 1..31
               THEN <<None, Some(Tagged(call.self, "m")), Some(other)>>
               ELSE <<Some(other), Some(Tagged(call.self, "m")), None>>

\* the orders in which three values can be read as (year, month, day)
Permutations3(v) ==
    {<<v[i], v[j], v[k]>> : <<i, j, k>> \in
        {<<1, 2, 3>>, <<1, 3, 2>>, <<2, 1, 3>>, <<2, 3, 1>>, <<3, 1, 2>>, <<3, 2, 1>>}}

\* C21: resolve on three untagged values, each in 0..99, returns a
\* permutation of them as (year, month, day); whenever some assignment has
\* month <= 12 and day <= 31 the returned month is at most 12 and the returned
\* day at most 31, for every dayfirst/yearfirst combination; and when all
\* three values are at most 12 and both flags are false the order is month,
\* day, year.
C21_ThreeUntaggedMagnitude ==
    (Resolved(3, {}) /\ \A i \in 1..3 : call.self.vals[i] \in 0..99) =>
        LET v == call.self.vals
            perms == Permutations3(v)
        IN  /\ returned(outcome)
            /\ \E p \in perms : outcome.value = <<Some(p[1]), Some(p[2]), Some(p[3])>>
            /\ (\E p \in perms : p[2] <= 12 /\ p[3] <= 31) =>
                  /\ Val(outcome.value[2]) <= 12
                  /\ Val(outcome.value[3]) <= 31
            /\ ((\A i \in 1..3 : v[i] <= 12) /\ ~call.yearfirst /\ ~call.dayfirst) =>
                  outcome.value = <<Some(v[3]), Some(v[1]), Some(v[2])>>

\* the numeric handler was called on the token at call.idx
NumericCalled == call.op = "_parse_numeric_token"

CalledToken == call.tokens[call.idx + 1]

\* C22: a numeric token that a clock-time branch of the numeric handler takes
\* (the call sets a clock field of the result) is not appended to the
\* accumulator; a short numeric token that no clock-time branch takes is
\* appended, once; so HH:MM:SS handled after three date values leaves three
\* values in the accumulator.
C22_ClockTokenNotAppended ==
    NumericCalled =>
        /\ run.res # call.res => ymd = call.ymd
        /\ (returned(outcome) /\ run.res = call.res
            /\ isdigit(CalledToken) /\ Len(CalledToken) <= 2) =>
              Len(ymd.vals) = Len(call.ymd.vals) + 1
        /\ (Len(call.ymd.vals) = 3 /\ returned(outcome) /\ run.res.second # None
            /\ call.res.second = None) =>
              Len(ymd.vals) = 3

\* the day of year a 7-digit run YYYYDDD names, when YYYY has such a day
YearOf(t) == int_of_digits(slice(t, 0, 4))

DayOfYear(t) == int_of_digits(slice(t, 4, 7))

IsJulian(t) ==
    /\ Len(t) = 7
    /\ isdigit(t)
    /\ 1900 <= YearOf(t) /\ YearOf(t) <= 3000
    /\ 1 <= DayOfYear(t)
    /\ DayOfYear(t) <= 365 + (IF isleap(YearOf(t)) THEN 1 ELSE 0)

\* C23: for a 7-digit run YYYYDDD with YYYY in 1900..3000, handled on an
\* accumulator without tags, the numeric handler appends the year, the month
\* and the day of the DDD-th day of year YYYY, tagged Year, Month and Day.
C23_JulianDayExpanded ==
    (NumericCalled /\ IsJulian(CalledToken) /\ strids_of(call.ymd) = {}) =>
        LET dt == date_of_yearday(YearOf(CalledToken), DayOfYear(CalledToken))
            n == Len(call.ymd.vals)
        IN  /\ ymd.vals = call.ymd.vals \o <<dt.year, dt.month, dt.day>>
            /\ ymd.ystridx = Some(n)
            /\ ymd.mstridx = Some(n + 1)
            /\ ymd.dstridx = Some(n + 2)

\* the pass of the dispatch loop that has just run, and the token it was at
DispatchCalled == call.op = "dispatch"

DispatchedToken == call.frame.l[call.frame.i + 1]

\* the pass was at a timezone name, with the hour known, and the name is
\* immediately followed by a sign and a one- or two-digit number of hours
NameThenSignedHours ==
    /\ DispatchCalled
    /\ call.frame.i + 2 < Len(call.frame.l)
    /\ ~is_float(DispatchedToken)
    /\ weekday(DispatchedToken) = None /\ month(DispatchedToken) = None
    /\ ampm(DispatchedToken) = None
    /\ _could_be_tzname(call.frame.res.hour, call.frame.res.tzname,
                        call.frame.res.tzoffset, DispatchedToken)
    /\ call.frame.l[call.frame.i + 2] \in {<<"+">>, <<"-">>}
    /\ isdigit(call.frame.l[call.frame.i + 3])
    /\ Len(call.frame.l[call.frame.i + 3]) <= 2

SignThenDigits ==
    /\ DispatchCalled
    /\ call.frame.i + 1 < Len(call.frame.l)
    /\ call.frame.res.hour # None
    /\ DispatchedToken \in {<<"+">>, <<"-">>}
    /\ isdigit(call.frame.l[call.frame.i + 2])

\* the token after the one at list position p is ':' and digits follow it
ColonDigitsAfter(l, p) ==
    p + 2 < Len(l) /\ l[p + 2] = <<":">> /\ isdigit(l[p + 3])

UtcSpellings ==
    {<<"U", "T", "C">>, <<"u", "t", "c">>, <<"G", "M", "T">>, <<"g", "m", "t">>,
     <<"Z">>, <<"z">>}

\* C26: tzoffset(name) returns 0 for every UTC-equivalent name in any letter
\* case, and for any other name the entry of the name table, or None when the
\* table has none.
C26_TzoffsetUtcAnyCase ==
    call.op = "tzoffset" =>
        /\ returned(outcome)
        /\ outcome.value = IF call.name \in UtcSpellings
                           THEN Some(0)
                           ELSE dict_get(info.TZOFFSET, call.name)

\* get_token was called while pieces of a re-split run were queued
GetTokenWithQueue == call.op = "get_token" /\ call.self.tokenstack # <<>>

\* C27: after a dotted run is re-split, the first piece is returned at once
\* and every queued piece is returned, in order, by the following get_token
\* calls before any further character is read; no queued piece is lost.
C27_QueuedPiecesReturnedInOrder ==
    /\ GetTokenWithQueue =>
          /\ outcome = Return(Head(call.self.tokenstack))
          /\ lex.tokenstack = Tail(call.self.tokenstack)
          /\ lex.instream = call.self.instream
          /\ lex.charstack = call.self.charstack
    /\ (call.op = "get_token" /\ call.self.tokenstack = <<>> /\ lex.tokenstack # <<>>) =>
          /\ returned(outcome)
          /\ count(Val(outcome.value[2]), ".") = 0
          /\ count(Val(outcome.value[2]), ",") = 0

\* the loop was left at the end of the token list
FinishCalled == call.op = "finish"

\* what resolve_ymd gives for the accumulator the loop was left with
ResolvedAtFinish ==
    resolve_ymd(call.ymd, call.frame.yearfirst, call.frame.dayfirst)

CenturyValue(val) ==
    IF val.type = "str" THEN isdigit(val.s) /\ Len(val.s) > 2 ELSE val.n > 100

\* an append failed with the duplicate-tag error: the value converts, its
\* label is accepted, and that label already has a position
DuplicateTagFailure ==
    /\ call.op = "append"
    /\ raised(outcome, "ValueError")
    /\ returned(int(call.val))
    /\ ~(CenturyValue(call.val) /\ call.label \notin {NoLabel, "Y"})
    /\ LET label == IF CenturyValue(call.val) THEN "Y" ELSE call.label
       IN  \/ label = "Y" /\ has_year(call.self)
           \/ label = "M" /\ has_month(call.self)
           \/ label = "D" /\ has_day(call.self)

\* C30: an append that fails with the duplicate-tag error leaves the
\* accumulator unchanged: the stored values, their count, the three tag
\* positions and the century-specified flag are as before the call.
C30_FailedAppendLeavesAccumulator ==
    DuplicateTagFailure =>
        /\ ymd.vals = call.self.vals
        /\ ymd.ystridx = call.self.ystridx
        /\ ymd.mstridx = call.self.mstridx
        /\ ymd.dstridx = call.self.dstridx
        /\ ymd.century_specified = call.self.century_specified

====
